---- MODULE Spec2Model ----
\* Model of the letterbox-list-generator core: the pagination engine
\* (utils/pagination.py), the rated-and-liked film extractor
\* (services/film_service.py), the user endpoints (controllers/users.py,
\* routers/users.py), the TMDb list service (services/tmdb_service.py) and
\* the sync endpoint and job (routers/jobs.py, jobs/sync_to_tmdb.py).
EXTENDS Integers, Sequences, FiniteSets, TLC

VARIABLES
    pc,          \* position of the modelled call: "call" or "done"
    data,        \* paginate_data: the caller's input list
    limit,       \* paginate_data: None or <<n>>
    page,        \* paginate_data: page number
    page_size,   \* paginate_data: items per page
    sort_key,    \* paginate_data: "None" or the name of a key function
    reverse,     \* paginate_data: descending order flag
    result,      \* paginate_data: the returned dictionary
    films_data,  \* get_rated_and_liked_films: what user.get_films() returns
    films,       \* get_rated_and_liked_films: the returned list
    endpoint,    \* users router: "profile", "watchlist" or "top-rated"
    sort_by,     \* users router: the sort_by query parameter
    sort_order,  \* users router: the sort_order query parameter
    fault,       \* the exception the Letterboxd source raises, or "none"
    watchlist_data,  \* what user.get_watchlist() returns
    user_stats,  \* user.stats
    outcome,     \* controllers/users.py: what the function returned or raised
    http,        \* routers/users.py: the response
    method,      \* TMDbService: the method called
    session_id,  \* TMDbService: whether self.session_id is set
    list_films,  \* update_list_with_movies: the films argument
    clear_first, \* update_list_with_movies: the clear_first argument
    env,         \* what each call to the TMDb catalog does
    list_items,  \* the items of the TMDb list at the catalog
    calls,       \* time.sleep and catalog calls made, in order
    ret,         \* TMDbService: what the method returned or raised
    config,      \* get_tmdb_config(): the environment's settings
    usernames,   \* POST /jobs/sync-tmdb: the usernames of the request
    queue,       \* the background tasks queued by the router
    idx,         \* sync_to_tmdb_job: position of the loop in usernames
    job_log,     \* sync_to_tmdb_job: the steps taken, in order
    list_mappings,     \* sync_to_tmdb_job: username -> list id, in memory
    mappings_updated,  \* sync_to_tmdb_job: whether a mapping was added
    mappings_file,     \* tmdb_list_mappings.json
    scenario,    \* per username: what the source and the catalog do
    catalog,     \* the items of each TMDb list, by list id
    tmdb_session,  \* the session_id of the job's TMDbService
    runs,        \* overlapping sync runs: each run's position and memory
    cron,        \* get_cron_config(): the scheduler's environment
    scheduler,   \* _scheduler_manager.scheduler
    app,         \* index.py: where the application process is
    sched_log    \* lifespan and scheduler calls made, in order

orchVars == <<endpoint, sort_by, sort_order, fault, watchlist_data, user_stats,
              outcome, http>>

svcVars == <<method, session_id, list_films, clear_first, env, list_items,
             calls, ret>>

syncVars == <<config, usernames, queue, idx, job_log, list_mappings,
              mappings_updated, mappings_file, scenario, catalog, tmdb_session>>

appVars == <<runs, cron, scheduler, app, sched_log>>

vars == <<pc, data, limit, page, page_size, sort_key, reverse, result,
          films_data, films, orchVars, svcVars, syncVars, appVars>>

pagVars == <<data, limit, page, page_size, sort_key, reverse, result>>
filmVars == <<films_data, films>>

-----------------------------------------------------------------------------
\* Bounds of the model

MaxLen == 3        \* longest input list
MaxItem == 3       \* items are the integers 1..MaxItem
MaxPageSize == 2   \* page sizes are 1..MaxPageSize
MaxFilms == 3      \* most films in one user's collection

-----------------------------------------------------------------------------
\* Python values

\* An Optional value is None or Some(x); an int is never compared to None.
None == <<>>
Some(x) == <<x>>
Val(o) == o[1]

Min(a, b) == IF a < b THEN a ELSE b
Max(a, b) == IF a > b THEN a ELSE b

\* s[start:stop] for integer start and stop, step 1: a negative index counts
\* from the end, both are clamped to 0..len(s), empty when stop <= start.
PySliceIndex(i, n) == IF i < 0 THEN Max(i + n, 0) ELSE Min(i, n)
PySlice(s, start, stop) ==
    SubSeq(s, PySliceIndex(start, Len(s)) + 1, PySliceIndex(stop, Len(s)))

\* bool(x) of an Optional[int]: None and 0 are falsy.
Truthy(o) == IF o = None THEN FALSE ELSE Val(o) # 0

\* dict.get(key) and dict.get(key, default) on a record
Get(d, key) == IF key \in DOMAIN d THEN Some(d[key]) ELSE None
GetOr(d, key, default) == IF key \in DOMAIN d THEN d[key] ELSE default

\* A str is the sequence of its code points. str.lower() on ASCII letters.
Lower(s) == [i \in 1..Len(s) |-> IF s[i] \in 65..90 THEN s[i] + 32 ELSE s[i]]

\* The order of str values of at most two ASCII characters as an integer:
\* s < t in Python exactly when StrOrd(s) < StrOrd(t).
StrOrd(s) ==
    IF Len(s) = 0 THEN 0
    ELSE 256 * s[1] + (IF Len(s) > 1 THEN s[2] ELSE 0)

\* A key of None, which cannot be ordered: comparing it raises TypeError.
NoneKey == 0 - 1

-----------------------------------------------------------------------------
\* controllers/users.py: the sort key functions. A normalized film holds
\* each optional field as None or Some(value).

\* Mutant: no lower(), the titles compare case-sensitively.
sort_by_title_CaseSensitive(x) ==
    StrOrd(IF x.title = None \/ Val(x.title) = <<>> THEN <<>> ELSE Val(x.title))

\* (x.get("title") or "").lower()
sort_by_title(x) ==
    StrOrd(Lower(IF x.title = None \/ Val(x.title) = <<>> THEN <<>> ELSE Val(x.title)))

\* x.get("year") or 0
sort_by_year(x) == IF x.year = None \/ Val(x.year) = 0 THEN 0 ELSE Val(x.year)

\* x.get("rating", 0)
sort_by_rating(x) == GetOr(x, "rating", 0)

-----------------------------------------------------------------------------
\* utils/pagination.py

\* The key functions callers pass as sort_key: a constant one, one under
\* which distinct items tie (2 and 3 both map to 1), and the controllers'.
SortKeys == {"const", "half"}
Key(k, x) ==
    CASE k = "const" -> 0
      [] k = "half" -> x \div 2
      [] k = "title" -> sort_by_title(x)
      [] k = "year" -> sort_by_year(x)
      [] k = "rating" -> sort_by_rating(x)

\* sorted(data, key=..., reverse=...): a stable sort. Each item is placed
\* after every item already placed that does not come after it in the
\* requested direction, so ties keep input order in both directions.
InsertSorted(out, x, k, rev) ==
    LET before == {i \in 1..Len(out) :
                      IF rev THEN Key(k, out[i]) >= Key(k, x)
                             ELSE Key(k, out[i]) <= Key(k, x)}
        c == Cardinality(before)
    IN  SubSeq(out, 1, c) \o <<x>> \o SubSeq(out, c + 1, Len(out))

RECURSIVE SortedPrefix(_, _, _, _)
SortedPrefix(s, n, k, rev) ==
    IF n = 0 THEN <<>>
    ELSE InsertSorted(SortedPrefix(s, n - 1, k, rev), s[n], k, rev)

RECURSIVE Reversed(_)
Reversed(s) == IF s = <<>> THEN <<>> ELSE Reversed(Tail(s)) \o <<Head(s)>>

\* Mutant: descending order obtained by reversing the ascending sort.
sorted_ReverseAfter(s, k, rev) ==
    IF rev THEN Reversed(SortedPrefix(s, Len(s), k, FALSE))
           ELSE SortedPrefix(s, Len(s), k, FALSE)

sorted(s, k, rev) == SortedPrefix(s, Len(s), k, rev)

\* Mutant: with no sort key the reverse flag still reverses the list.
SortStage_ReverseUnsorted(d, k, rev) ==
    IF k # "None" THEN sorted(d, k, rev)
    ELSE IF rev THEN Reversed(d) ELSE d

\* if sort_key: data = sorted(data, key=sort_key, reverse=reverse)
SortStage(d, k, rev) == IF k # "None" THEN sorted(d, k, rev) ELSE d

\* Mutant: "if limit is not None", so that a limit of 0 truncates to nothing.
LimitStage_NotNone(d, l) == IF l # None THEN PySlice(d, 0, Val(l)) ELSE d

\* if limit: data = data[:limit]
LimitStage(d, l) == IF Truthy(l) THEN PySlice(d, 0, Val(l)) ELSE d

\* Mutant: pages counted from 0.
PageSlice_ZeroBased(d, p, ps) == PySlice(d, p * ps, p * ps + ps)

\* start_index = (page - 1) * page_size; end_index = start_index + page_size
\* paginated_data = data[start_index:end_index]
\* Mutant: the slice includes the item at end_index.
PageSlice_Inclusive(d, p, ps) == PySlice(d, (p - 1) * ps, (p - 1) * ps + ps + 1)

PageSlice(d, p, ps) ==
    LET start_index == (p - 1) * ps
        end_index == start_index + ps
    IN  PySlice(d, start_index, end_index)

\* Mutant: floor division, no rounding up.
TotalPages_Floor(n, ps) == IF n > 0 THEN n \div ps ELSE 1

\* (total_for_pagination + page_size - 1) // page_size
\*     if total_for_pagination > 0 else 1
TotalPages(n, ps) == IF n > 0 THEN (n + ps - 1) \div ps ELSE 1

\* Mutant: "not on the last page".
HasNext_NotLast(p, tp) == p # tp

\* "has_next": page < total_pages
HasNext(p, tp) == p < tp

\* Mutant: page 1 counted as having a previous page.
HasPrevious_Positive(p) == p > 0

\* "has_previous": page > 1
HasPrevious(p) == p > 1

\* The returned dictionary.
PageResult(total_count, d, p, ps) ==
    LET paginated_data == PageSlice(d, p, ps)
        total_pages == TotalPages(Len(d), ps)
    IN  [total_count |-> total_count,
         paginated_data |-> paginated_data,
         page |-> p,
         page_size |-> ps,
         total_pages |-> total_pages,
         has_next |-> HasNext(p, total_pages),
         has_previous |-> HasPrevious(p),
         items_count |-> Len(paginated_data)]

\* Mutant: the limit is applied before the sort.
paginate_data_LimitFirst(d, l, p, ps, k, rev) ==
    PageResult(Len(d), SortStage(LimitStage(d, l), k, rev), p, ps)

\* Mutant: total_count taken after the limit.
paginate_data_CountAfterLimit(d, l, p, ps, k, rev) ==
    LET d2 == LimitStage(SortStage(d, k, rev), l)
    IN  PageResult(Len(d2), d2, p, ps)

paginate_data(d, l, p, ps, k, rev) ==
    LET total_count == Len(d)
        d1 == SortStage(d, k, rev)
        d2 == LimitStage(d1, l)
    IN  PageResult(total_count, d2, p, ps)

-----------------------------------------------------------------------------
\* The parts of the state a specification does not use

NoOutcome == [kind |-> "none"]
NoResponse == [status |-> 0]
OrchUnused ==
    /\ endpoint = "none"
    /\ sort_by = "none"
    /\ sort_order = "none"
    /\ fault = "none"
    /\ watchlist_data = <<>>
    /\ user_stats = <<>>
    /\ outcome = NoOutcome
    /\ http = NoResponse

\* The TMDb service is not called.
NoEnv == [none |-> TRUE]
SvcUnused ==
    /\ method = "none"
    /\ session_id = FALSE
    /\ list_films = <<>>
    /\ clear_first = FALSE
    /\ env = NoEnv
    /\ list_items = <<>>
    /\ calls = <<>>
    /\ ret = NoOutcome

\* The sync endpoint and job are not running.
NoConfig == [none |-> TRUE]
SyncUnused ==
    /\ config = NoConfig
    /\ usernames = <<>>
    /\ queue = <<>>
    /\ idx = 0
    /\ job_log = <<>>
    /\ list_mappings = <<>>
    /\ mappings_updated = FALSE
    /\ mappings_file = <<>>
    /\ scenario = <<>>
    /\ catalog = <<>>
    /\ tmdb_session = FALSE

\* No overlapping runs and no application process.
NoCron == [none |-> TRUE]
AppUnused ==
    /\ runs = <<>>
    /\ cron = NoCron
    /\ scheduler = <<>>
    /\ app = "none"
    /\ sched_log = <<>>

-----------------------------------------------------------------------------
\* Inputs

Items == 1..MaxItem
DataLists == UNION {[1..n -> Items] : n \in 0..MaxLen}
Limits == {None} \cup {Some(n) : n \in (-1)..(MaxLen + 1)}
Pages == (-1)..(MaxLen + 2)
PageSizes == 1..MaxPageSize
NoResult == [total_count |-> 0, paginated_data |-> <<>>, page |-> 0,
             page_size |-> 0, total_pages |-> 0, has_next |-> FALSE,
             has_previous |-> FALSE, items_count |-> 0]

-----------------------------------------------------------------------------
\* Specification of paginate_data: a call with inputs from the bounded sets.

InitPaginate ==
    /\ pc = "call"
    /\ data \in DataLists
    /\ limit \in Limits
    /\ page \in Pages
    /\ page_size \in PageSizes
    /\ sort_key \in SortKeys \cup {"None"}
    /\ reverse \in BOOLEAN
    /\ result = NoResult
    /\ films_data = <<>>
    /\ films = <<>>
    /\ OrchUnused
    /\ SvcUnused
    /\ SyncUnused
    /\ AppUnused

\* The call. The function rebinds its local name `data` to new lists (sorted
\* and slicing both copy); the caller's list is not written.
Paginate ==
    /\ pc = "call"
    /\ result' = paginate_data(data, limit, page, page_size, sort_key, reverse)
    /\ pc' = "done"
    /\ UNCHANGED <<data, limit, page, page_size, sort_key, reverse>>
    /\ UNCHANGED <<filmVars, orchVars, svcVars, syncVars, appVars>>

NextPaginate == Paginate

SpecPaginate == InitPaginate /\ [][NextPaginate]_vars

-----------------------------------------------------------------------------
\* services/film_service.py

MaxRating == 10   \* source ratings are on a 10-point scale

\* Mutant: integer division, rating // 2.
HalfRating_FloorDiv(rating) == (rating \div 2) * 10

\* rating / 2.0, kept exact as a count of tenths of a star (9 -> 45 = 4.5)
HalfRating(rating) == rating * 5

\* f"https://letterboxd.com/film/{slug}/"
FilmUrl(slug) == <<"https://letterboxd.com/film/", slug, "/">>

\* Mutant: "rating is not None and liked", which lets a 0 rating through.
IsRatedAndLiked_NotNone(film) ==
    LET rating == Get(film, "rating")
        liked == GetOr(film, "liked", FALSE)
    IN  rating # None /\ liked

\* rating = film.get("rating"); liked = film.get("liked", False)
\* if rating and rating > 0 and liked
IsRatedAndLiked(film) ==
    LET rating == Get(film, "rating")
        liked == GetOr(film, "liked", FALSE)
    IN  Truthy(rating) /\ Val(rating) > 0 /\ liked

NormalizedFilm(slug, film) ==
    [title |-> Get(film, "name"),
     slug |-> slug,
     url |-> FilmUrl(slug),
     rating |-> HalfRating(film.rating),
     year |-> Get(film, "year")]

\* for slug, film in films_data["movies"].items(): ... films.append({...})
\* over the first n entries of the mapping, in iteration order
RECURSIVE ExtractFilms(_, _)
ExtractFilms(movies, n) ==
    IF n = 0 THEN <<>>
    ELSE LET slug == movies[n][1]
             film == movies[n][2]
             sofar == ExtractFilms(movies, n - 1)
         IN  IF IsRatedAndLiked(film)
             THEN Append(sofar, NormalizedFilm(slug, film))
             ELSE sofar

get_rated_and_liked_films(fd) ==
    IF "movies" \in DOMAIN fd
    THEN ExtractFilms(fd.movies, Len(fd.movies))
    ELSE <<>>

\* Raw film records as the source supplies them: "rating" an integer
\* 0..MaxRating or missing, "liked" a boolean or missing.
WithField(f, key, o) == IF o = None THEN f ELSE (key :> Val(o)) @@ f
RawFilmsRated(ratings) ==
    {WithField(WithField([name |-> "Film", year |-> 2020], "rating", r), "liked", l) :
        r \in {None} \cup {Some(n) : n \in ratings},
        l \in {None, Some(TRUE), Some(FALSE)}}

\* A mapping slug -> film in iteration order: a list of <<slug, film>>
\* entries with distinct slugs.
Slugs == 1..MaxFilms
SlugOrders(n) == {o \in [1..n -> Slugs] : \A i, j \in 1..n : i # j => o[i] # o[j]}
Mapping(n, order, raw) == [i \in 1..n |-> <<order[i], raw[i]>>]

\* user.get_films(): a dictionary with or without the "movies" key
NoMovies == <<>>

-----------------------------------------------------------------------------
\* Specification of get_rated_and_liked_films

InitFilms ==
    /\ pc = "call"
    /\ \/ films_data = NoMovies
       \* one film, with every rating
       \/ \E slug \in Slugs, f \in RawFilmsRated(0..MaxRating) :
              films_data = [movies |-> <<(<<slug, f>>)>>]
       \* up to MaxFilms films, with the extreme ratings
       \/ \E n \in 0..MaxFilms :
              \E order \in SlugOrders(n), raw \in [1..n -> RawFilmsRated({0, MaxRating})] :
                  films_data = [movies |-> Mapping(n, order, raw)]
    /\ films = <<>>
    /\ data = <<>>
    /\ limit = None
    /\ page = 1
    /\ page_size = 1
    /\ sort_key = "None"
    /\ reverse = FALSE
    /\ result = NoResult
    /\ OrchUnused
    /\ SvcUnused
    /\ SyncUnused
    /\ AppUnused

GetRatedAndLikedFilms ==
    /\ pc = "call"
    /\ films' = get_rated_and_liked_films(films_data)
    /\ pc' = "done"
    /\ UNCHANGED films_data
    /\ UNCHANGED <<pagVars, orchVars, svcVars, syncVars, appVars>>

NextFilms == GetRatedAndLikedFilms

SpecFilms == InitFilms /\ [][NextFilms]_vars

-----------------------------------------------------------------------------
\* controllers/users.py and routers/users.py

MaxOrchFilms == 2   \* most films the source holds for the user of a request

\* {"title": film.get("name"), "year": film.get("year"), "url": film.get("url")}
normalize_watchlist_film(slug, film) ==
    [title |-> Get(film, "name"), year |-> Get(film, "year"), url |-> Get(film, "url")]

\* sorted() compares the keys of the items with "<": with two or more items,
\* a key of None raises TypeError.
SortRaises(d, k) ==
    k # "None" /\ Len(d) >= 2 /\ \E i \in 1..Len(d) : Key(k, d[i]) = NoneKey

\* An exception, by class name and message.
Exc(kind, message) == [kind |-> kind, message |-> message]
FaultKinds == {"Exception", "ConnectionError", "KeyError", "ValueError"}
FaultMessage(kind) == <<"source failed with ", kind>>

\* Mutant: "except (ConnectionError, ValueError) as e".
Catches_Narrow(kind) == kind \in {"ConnectionError", "ValueError"}

\* "except Exception as e" catches every error class.
Catches(kind) == TRUE

\* raise ValueError(f"{prefix}{str(e)}") from e, out of the except clause
Reraise(prefix, e) ==
    IF Catches(e.kind) THEN Exc("ValueError", <<prefix, e.message>>) ELSE e

Returned(body) == [kind |-> "ok", body |-> body]

get_user_profile(flt, stats) ==
    IF flt # "none"
    THEN Reraise("Error fetching user profile: ", Exc(flt, FaultMessage(flt)))
    ELSE Returned([stats |-> [films_watched |-> GetOr(stats, "films", 0),
                              lists |-> 0,
                              following |-> GetOr(stats, "following", 0),
                              followers |-> GetOr(stats, "followers", 0)]])

\* The envelope both list endpoints build from the pagination result.
Envelope(total_name, r) ==
    (total_name :> r.total_count)
    @@ [films_count |-> r.items_count,
        page |-> r.page,
        page_size |-> r.page_size,
        total_pages |-> r.total_pages,
        has_next |-> r.has_next,
        has_previous |-> r.has_previous,
        films |-> r.paginated_data]

\* Sort, paginate and wrap; a TypeError out of sorted() is an exception
\* inside the try block like any other.
SortedPage(prefix, total_name, fs, l, p, ps, sk, order) ==
    IF SortRaises(fs, sk)
    THEN Reraise(prefix, Exc("TypeError", "'<' not supported"))
    ELSE Returned(Envelope(total_name, paginate_data(fs, l, p, ps, sk, order = "desc")))

get_user_watchlist(flt, wd, l, p, ps, by, order) ==
    IF flt # "none"
    THEN Reraise("Error fetching watchlist: ", Exc(flt, FaultMessage(flt)))
    ELSE LET fs == IF "data" \in DOMAIN wd
                   THEN [i \in 1..Len(wd.data) |->
                            normalize_watchlist_film(wd.data[i][1], wd.data[i][2])]
                   ELSE <<>>
             sk == IF by = "title" THEN "title"
                   ELSE IF by = "year" THEN "year"
                   ELSE "None"
         IN  SortedPage("Error fetching watchlist: ", "total_watchlist",
                        fs, l, p, ps, sk, order)

get_top_rated_films(flt, fd, l, p, ps, by, order) ==
    IF flt # "none"
    THEN Reraise("Error fetching top rated films: ", Exc(flt, FaultMessage(flt)))
    ELSE LET fs == get_rated_and_liked_films(fd)
             sk == IF by = "rating" THEN "rating"
                   ELSE IF by = "title" THEN "title"
                   ELSE IF by = "year" THEN "year"
                   ELSE "None"
         IN  SortedPage("Error fetching top rated films: ", "total_rated",
                        fs, l, p, ps, sk, order)

\* routers/users.py: every handler maps ValueError to 404 and any other
\* exception to 500.
Route(out) ==
    IF out.kind = "ok" THEN [status |-> 200, body |-> out.body]
    ELSE IF out.kind = "ValueError" THEN [status |-> 404, detail |-> out.message]
    ELSE [status |-> 500, detail |-> <<"Internal server error: ", out.message>>]

\* Raw films of the source: every title case with one year and rating, every
\* year case and every rating case with one title, and a film not liked.
TitleB == <<66>>
TitleLowerA == <<97>>
TitleLowerB == <<98>>
OrchRawFilms ==
    {WithField([year |-> 2000, url |-> "u", rating |-> 10, liked |-> TRUE], "name", t) :
        t \in {None, Some(TitleB), Some(TitleLowerA), Some(TitleLowerB)}}
    \cup {WithField([name |-> TitleLowerA, url |-> "u", rating |-> 10, liked |-> TRUE], "year", y) :
        y \in {None, Some(1999)}}
    \cup {[name |-> TitleLowerA, year |-> 2000, url |-> "u", rating |-> 6, liked |-> TRUE],
          [name |-> TitleLowerA, year |-> 2000, url |-> "u", rating |-> 10, liked |-> FALSE]}
IdentityOrder(n) == [i \in 1..n |-> i]

-----------------------------------------------------------------------------
\* Specification of the three user endpoints: one request each.

InitOrch ==
    /\ pc = "call"
    /\ data = <<>> /\ sort_key = "None" /\ reverse = FALSE /\ result = NoResult
    /\ films = <<>>
    /\ outcome = NoOutcome
    /\ http = NoResponse
    /\ SvcUnused
    /\ SyncUnused
    /\ AppUnused
    /\ endpoint \in {"profile", "watchlist", "top-rated"}
    /\ fault \in {"none"} \cup FaultKinds
    /\ IF endpoint = "profile"
       THEN /\ user_stats \in {<<>>, [films |-> 5], [films |-> 5, following |-> 1, followers |-> 2]}
            /\ sort_by = "none" /\ sort_order = "none"
            /\ limit = None /\ page = 1 /\ page_size = 1
            /\ films_data = NoMovies /\ watchlist_data = <<>>
       ELSE /\ user_stats = <<>>
            /\ sort_by \in {"title", "year", "rating"}
            /\ sort_order \in {"asc", "desc"}
            /\ limit \in {None, Some(1), Some(MaxOrchFilms)}
            /\ page \in 1..2
            /\ page_size \in PageSizes
            /\ \E n \in 0..MaxOrchFilms :
                  \E raw \in [1..n -> OrchRawFilms] :
                     LET m == IF fault = "none" THEN Mapping(n, IdentityOrder(n), raw)
                              ELSE <<>>
                     IN  IF endpoint = "watchlist"
                         THEN films_data = NoMovies /\ watchlist_data = [data |-> m]
                         ELSE films_data = [movies |-> m] /\ watchlist_data = <<>>

orchInputs == <<endpoint, sort_by, sort_order, fault, watchlist_data, user_stats>>

GetUserProfile ==
    /\ pc = "call" /\ endpoint = "profile"
    /\ outcome' = get_user_profile(fault, user_stats)
    /\ http' = Route(outcome')
    /\ pc' = "done"
    /\ UNCHANGED <<pagVars, filmVars, orchInputs, svcVars, syncVars, appVars>>

GetUserWatchlist ==
    /\ pc = "call" /\ endpoint = "watchlist"
    /\ outcome' = get_user_watchlist(fault, watchlist_data, limit, page, page_size,
                                     sort_by, sort_order)
    /\ http' = Route(outcome')
    /\ pc' = "done"
    /\ UNCHANGED <<pagVars, filmVars, orchInputs, svcVars, syncVars, appVars>>

GetTopRated ==
    /\ pc = "call" /\ endpoint = "top-rated"
    /\ outcome' = get_top_rated_films(fault, films_data, limit, page, page_size,
                                      sort_by, sort_order)
    /\ http' = Route(outcome')
    /\ pc' = "done"
    /\ UNCHANGED <<pagVars, filmVars, orchInputs, svcVars, syncVars, appVars>>

NextOrch == GetUserProfile \/ GetUserWatchlist \/ GetTopRated

SpecOrch == InitOrch /\ [][NextOrch]_vars

-----------------------------------------------------------------------------
\* services/tmdb_service.py: TMDbService

MaxListFilms == 2   \* most films handed to update_list_with_movies

\* except (ConnectionError, TimeoutError, ValueError, KeyError,
\*         AttributeError, RuntimeError)
ServiceCatches(kind) ==
    kind \in {"ConnectionError", "TimeoutError", "ValueError", "KeyError",
              "AttributeError", "RuntimeError"}

\* The inner except of get_or_create_list, around created_lists():
\* except (ConnectionError, TimeoutError, ValueError, KeyError, AttributeError)
ListsCatches(kind) ==
    kind \in {"ConnectionError", "TimeoutError", "ValueError", "KeyError",
              "AttributeError"}

\* Entries of the call log.
Sleep == <<"sleep">>
CallSearch(title, year) == <<"movie_search", title, year>>
CallList == <<"list">>
CallClear == <<"clear">>
CallAddItems(ids) == <<"add_items", ids>>
CallCreatedLists == <<"created_lists">>
CallCreateList == <<"create_list">>

\* What a method leaves behind: its return value or exception, the calls
\* made so far and the items of the list.
Left(r, cs, items) == [ret |-> r, calls |-> cs, items |-> items]

\* A catalog call raised kind inside a try block whose handler returns v.
Raised(kind, v, cs, items) ==
    Left(IF ServiceCatches(kind) THEN Returned(v) ELSE Exc(kind, "catalog error"),
         cs, items)

\* if not title
TruthyStr(o) == IF o = None THEN FALSE ELSE Val(o) # ""

search_movie(e, title, year, cs) ==
    LET made == cs \o <<Sleep, CallSearch(title, year)>>
        o == IF title \in DOMAIN e.search THEN e.search[title] ELSE [kind |-> "empty"]
    IN  IF o.kind = "raise" THEN Raised(o.exc, None, made, <<>>)
        ELSE IF o.kind = "match" THEN Left(Returned(Some([id |-> o.id])), made, <<>>)
        ELSE Left(Returned(None), made, <<>>)

\* Mutant: no check of the session before the catalog is called.
clear_list_NoSessionCheck(sess, e, items, cs) ==
    IF e.clear_get # "ok"
    THEN Raised(e.clear_get, TRUE, cs \o <<CallList>>, items)
    ELSE IF e.clear # "ok"
    THEN Raised(e.clear, TRUE, cs \o <<CallList, Sleep, CallClear>>, items)
    ELSE Left(Returned(TRUE), cs \o <<CallList, Sleep, CallClear>>, <<>>)

\* The except clause of clear_list ends in "return True".
clear_list(sess, e, items, cs) ==
    IF ~sess THEN Left(Returned(FALSE), cs, items)
    ELSE IF e.clear_get # "ok"
    THEN Raised(e.clear_get, TRUE, cs \o <<CallList>>, items)
    ELSE IF e.clear # "ok"
    THEN Raised(e.clear, TRUE, cs \o <<CallList, Sleep, CallClear>>, items)
    ELSE Left(Returned(TRUE), cs \o <<CallList, Sleep, CallClear>>, <<>>)

\* A failed add_items leaves the list as it was.
add_movies_to_list(sess, e, items, movie_ids, cs) ==
    IF ~sess THEN Left(Returned(FALSE), cs, items)
    ELSE IF movie_ids = <<>> THEN Left(Returned(TRUE), cs, items)
    ELSE IF e.add_get # "ok"
    THEN Raised(e.add_get, FALSE, cs \o <<CallList>>, items)
    ELSE IF e.add # "ok"
    THEN Raised(e.add, FALSE, cs \o <<CallList, Sleep, CallAddItems(movie_ids)>>, items)
    ELSE Left(Returned(TRUE), cs \o <<CallList, Sleep, CallAddItems(movie_ids)>>,
              items \o movie_ids)

\* f"{title} ({year})"
NotMatchedEntry(title, year) == <<title, " (", year, ")">>

\* Mutant: the newest entry goes to the front.
NotMatchedAppend_Prepend(not_matched, entry) == <<entry>> \o not_matched

\* result["not_matched"].append(...)
NotMatchedAppend(not_matched, entry) == Append(not_matched, entry)

\* Mutant: the newest identifier goes to the front.
QueueId_Front(movie_ids, id) == <<id>> \o movie_ids

\* movie_ids.append(tmdb_movie["id"])
QueueId(movie_ids, id) == Append(movie_ids, id)

\* Mutant: a film without a title is reported as not matched.
SkipsFilm_Never(title) == FALSE

\* if not title: continue
SkipsFilm(title) == ~TruthyStr(title)

\* The "for film in films" loop from film i on; acc holds movie_ids, the
\* counters of result, the call log and the exception that ended the loop.
RECURSIVE SearchFilms(_, _, _, _)
SearchFilms(e, fs, i, acc) ==
    IF i > Len(fs) \/ acc.raised # None THEN acc
    ELSE LET title == fs[i].title
             year == fs[i].year
         IN  IF SkipsFilm(title) THEN SearchFilms(e, fs, i + 1, acc)
             ELSE LET r == search_movie(e, IF title = None THEN "" ELSE Val(title),
                                        year, acc.calls)
                  IN  IF r.ret.kind # "ok"
                      THEN [acc EXCEPT !.calls = r.calls, !.raised = Some(r.ret)]
                      ELSE IF r.ret.body # None
                      THEN SearchFilms(e, fs, i + 1,
                               [acc EXCEPT !.calls = r.calls,
                                           !.movie_ids = QueueId(@, Val(r.ret.body).id),
                                           !.matched = @ + 1])
                      ELSE SearchFilms(e, fs, i + 1,
                               [acc EXCEPT !.calls = r.calls,
                                           !.not_matched =
                                               NotMatchedAppend(@, NotMatchedEntry(title, year))])

update_list_with_movies(sess, e, items, fs, cf) ==
    LET result0 == [success |-> FALSE, total_films |-> Len(fs), matched |-> 0,
                    not_matched |-> <<>>, added |-> 0]
    IN  IF fs = <<>> THEN Left(Returned([result0 EXCEPT !.success = TRUE]), <<>>, items)
        ELSE
        LET c == IF cf THEN clear_list(sess, e, items, <<>>)
                 ELSE Left(Returned(TRUE), <<>>, items)
        IN  IF c.ret.kind # "ok" THEN c
            ELSE IF ~c.ret.body THEN Left(Returned(result0), c.calls, c.items)
            ELSE
            LET s == SearchFilms(e, fs, 1,
                         [movie_ids |-> <<>>, matched |-> 0, not_matched |-> <<>>,
                          calls |-> c.calls, raised |-> None])
                result1 == [result0 EXCEPT !.matched = s.matched,
                                           !.not_matched = s.not_matched]
            IN  IF s.raised # None THEN Left(Val(s.raised), s.calls, c.items)
                ELSE IF s.movie_ids # <<>>
                THEN LET a == add_movies_to_list(sess, e, c.items, s.movie_ids, s.calls)
                     IN  IF a.ret.kind # "ok" THEN a
                         ELSE IF a.ret.body
                         THEN Left(Returned([result1 EXCEPT !.added = Len(s.movie_ids),
                                                            !.success = TRUE]),
                                   a.calls, a.items)
                         ELSE Left(Returned(result1), a.calls, a.items)
                ELSE Left(Returned([result1 EXCEPT !.success = TRUE]), s.calls, c.items)

\* get_or_create_list: e.created is what created_lists() does ("found": a
\* list with the name exists; "absent": none does; else the error raised)
\* and e.create what create_list() does ("id", "noid" or the error raised).
get_or_create_list(sess, e, cs) ==
    IF ~sess THEN Left(Returned(None), cs, <<>>)
    ELSE LET listed == cs \o <<CallCreatedLists>>
             created == listed \o <<CallCreateList>>
         IN  IF e.created = "found" THEN Left(Returned(Some(e.found_id)), listed, <<>>)
             ELSE IF e.created # "absent" /\ ~ListsCatches(e.created)
             THEN Raised(e.created, None, listed, <<>>)
             ELSE IF e.create = "id" THEN Left(Returned(Some(e.new_id)), created, <<>>)
             ELSE IF e.create = "noid" THEN Left(Returned(None), created, <<>>)
             ELSE Raised(e.create, None, created, <<>>)

-----------------------------------------------------------------------------
\* Specification of TMDbService: one method call on a list that holds one
\* item from an earlier run.

Titles == {"A", "B"}
ListFilmKinds ==
    {[title |-> Some("A"), year |-> Some(1999)],
     [title |-> Some("B"), year |-> None],
     [title |-> None, year |-> Some(1999)],
     [title |-> Some(""), year |-> Some(1999)]}
OldItems == <<9>>
Match(id) == [kind |-> "match", id |-> id]
Empty == [kind |-> "empty"]
Raise(kind) == [kind |-> "raise", exc |-> kind]
SearchEnvs ==
    {[t \in Titles |-> IF t = "A" THEN a ELSE b] :
        a \in {Match(1), Empty, Raise("ConnectionError"), Raise("NotFound")},
        b \in {Match(2), Empty}}
CallOutcomes == {"ok", "ConnectionError", "NotFound"}
GetOutcomes == {"ok", "ConnectionError"}
CreatedOutcomes == {"found", "absent", "ConnectionError", "RuntimeError", "NotFound"}
CreateOutcomes == {"id", "noid", "ConnectionError", "NotFound"}
UpdateEnv(search, clear_get, clear, add_get, add) ==
    [search |-> search, clear_get |-> clear_get, clear |-> clear,
     add_get |-> add_get, add |-> add]
ListsEnv(created, create) ==
    [created |-> created, create |-> create, found_id |-> 7, new_id |-> 8]

InitService ==
    /\ pc = "call"
    /\ data = <<>> /\ limit = None /\ page = 1 /\ page_size = 1
    /\ sort_key = "None" /\ reverse = FALSE /\ result = NoResult
    /\ films_data = NoMovies /\ films = <<>>
    /\ OrchUnused
    /\ SyncUnused
    /\ AppUnused
    /\ calls = <<>>
    /\ ret = NoOutcome
    /\ session_id \in BOOLEAN
    /\ method \in {"update_list_with_movies", "get_or_create_list"}
    /\ IF method = "update_list_with_movies"
       THEN /\ list_items = OldItems
            /\ clear_first \in BOOLEAN
            /\ \E n \in 0..MaxListFilms : list_films \in [1..n -> ListFilmKinds]
            /\ \E search \in SearchEnvs, clear_get \in GetOutcomes, clear \in CallOutcomes,
                  add_get \in GetOutcomes, add \in CallOutcomes :
                  env = UpdateEnv(search, clear_get, clear, add_get, add)
       ELSE /\ list_items = <<>>
            /\ clear_first = FALSE
            /\ list_films = <<>>
            /\ \E created \in CreatedOutcomes, create \in CreateOutcomes :
                  env = ListsEnv(created, create)

svcInputs == <<method, session_id, list_films, clear_first, env>>

UpdateListWithMovies ==
    /\ pc = "call" /\ method = "update_list_with_movies"
    /\ LET r == update_list_with_movies(session_id, env, list_items, list_films, clear_first)
       IN  ret' = r.ret /\ calls' = r.calls /\ list_items' = r.items
    /\ pc' = "done"
    /\ UNCHANGED <<pagVars, filmVars, orchVars, svcInputs, syncVars, appVars>>

GetOrCreateList ==
    /\ pc = "call" /\ method = "get_or_create_list"
    /\ LET r == get_or_create_list(session_id, env, calls)
       IN  ret' = r.ret /\ calls' = r.calls
    /\ pc' = "done"
    /\ UNCHANGED <<pagVars, filmVars, orchVars, svcInputs, list_items, syncVars, appVars>>

NextService == UpdateListWithMovies \/ GetOrCreateList

SpecService == InitService /\ [][NextService]_vars

-----------------------------------------------------------------------------
\* routers/jobs.py and jobs/sync_to_tmdb.py

MaxUsers == 2   \* most usernames in one request
MaxSyncLimit == 2   \* largest TMDB_SYNC_LIMIT tried besides the default
SyncLimit == 100

\* Mutant: page_size is not taken from TMDB_SYNC_LIMIT.
get_tmdb_config_OwnPageSize(enabled, api_key, v4_access_token, sync_limit) ==
    [enabled |-> enabled, api_key |-> api_key, v4_access_token |-> v4_access_token,
     limit |-> sync_limit, page_size |-> 1,
     sort_by |-> "rating", sort_order |-> "desc"]

\* get_tmdb_config(): limit and page_size are both TMDB_SYNC_LIMIT; sort_by
\* and sort_order keep their defaults.
get_tmdb_config(enabled, api_key, v4_access_token, sync_limit) ==
    [enabled |-> enabled, api_key |-> api_key, v4_access_token |-> v4_access_token,
     limit |-> sync_limit, page_size |-> sync_limit,
     sort_by |-> "rating", sort_order |-> "desc"]

\* Mutant: only TMDB_SYNC_ENABLED is checked.
TriggerReady_EnabledOnly(c) == c.enabled

\* The three checks of trigger_tmdb_sync that raise 503.
TriggerReady(c) == c.enabled /\ c.api_key /\ c.v4_access_token

Acknowledgment(names) ==
    [message |-> <<"TMDb sync job started for ", Len(names), " user(s)">>,
     usernames |-> names,
     job_started |-> TRUE]

\* The response and the background tasks after the handler.
trigger_tmdb_sync(c, names, q) ==
    IF ~TriggerReady(c)
    THEN [http |-> [status |-> 503,
                    detail |-> IF ~c.enabled THEN "TMDb sync is disabled"
                               ELSE IF ~c.api_key THEN "TMDb API key not configured"
                               ELSE "TMDb v4 access token not configured"],
          queue |-> q]
    ELSE [http |-> [status |-> 200, body |-> Acknowledgment(names)],
          queue |-> Append(q, names)]

\* The early returns of sync_to_tmdb_job.
JobConfigured(c) == c.enabled /\ c.api_key /\ c.v4_access_token

\* Mutant: "except ValueError as e" around the body of the loop.
PerUserCatches_ValueErrorOnly(kind) == kind = "ValueError"

\* "except Exception as e" around the body of the loop.
PerUserCatches(kind) == TRUE

\* What one pass of the loop body leaves: how it ended ("no-list",
\* "no-films", "synced", "sync-failed" or "raised" with the exception), the
\* mappings, whether one was added, the catalog's lists, the call log, the
\* functions the pass invoked, in order, and what get_top_rated_films
\* returned, if it did.
Pass(tag, e, maps, added, cat, cs, inv, fetched) ==
    [tag |-> tag, raised |-> e, mappings |-> maps, added |-> added,
     catalog |-> cat, calls |-> cs, invoked |-> inv, fetched |-> fetched]

\* Mutant: the mapping is not consulted.
KnownList_Never(maps, u) == None

\* list_id = list_mappings.get(username)
KnownList(maps, u) == Get(maps, u)

\* Mutant: the update is made also with no films.
NoFilms_Never(fs) == FALSE

\* if films_count == 0: continue
NoFilms(fs) == Len(fs) = 0

\* The body of "for username in usernames".
process_user(u, sc, maps, sess, cat, cs, c) ==
    LET known == KnownList(maps, u)
        g == IF Truthy(known) THEN Left(Returned(known), cs, <<>>)
             ELSE get_or_create_list(sess, sc.env, cs)
        inv0 == IF Truthy(known) THEN <<>> ELSE <<"get_or_create_list">>
        inv1 == Append(inv0, "get_top_rated_films")
        inv2 == Append(inv1, "update_list_with_movies")
    IN  IF g.ret.kind # "ok"
        THEN Pass("raised", Some(g.ret), maps, FALSE, cat, g.calls, inv0, None)
        ELSE IF ~Truthy(g.ret.body)
        THEN Pass("no-list", None, maps, FALSE, cat, g.calls, inv0, None)
        ELSE
        LET list_id == Val(g.ret.body)
            added == ~Truthy(known)
            maps1 == IF added THEN (u :> list_id) @@ maps ELSE maps
            t == get_top_rated_films(sc.fault, sc.films_data, Some(c.limit), 1,
                                     c.page_size, c.sort_by, c.sort_order)
        IN  IF t.kind # "ok"
            THEN Pass("raised", Some(t), maps1, added, cat, g.calls, inv1, None)
            ELSE IF NoFilms(t.body.films)
            THEN Pass("no-films", None, maps1, added, cat, g.calls, inv1, Some(t.body))
            ELSE
            LET r == update_list_with_movies(sess, sc.env, cat[list_id], t.body.films, TRUE)
                cat1 == [cat EXCEPT ![list_id] = r.items]
                cs1 == g.calls \o r.calls
                f == Some(t.body)
            IN  IF r.ret.kind # "ok"
                THEN Pass("raised", Some(r.ret), maps1, added, cat1, cs1, inv2, f)
                ELSE IF r.ret.body.success
                THEN Pass("synced", None, maps1, added, cat1, cs1, inv2, f)
                ELSE Pass("sync-failed", None, maps1, added, cat1, cs1, inv2, f)

\* Mutant: the file's current entries are kept when the file is written.
save_list_mappings_Merge(file, mappings) == mappings @@ file

\* save_list_mappings: the file is opened for writing, which empties it,
\* and the mappings handed over are dumped into it.
save_list_mappings(file, mappings) == mappings

\* load_list_mappings: the file's content, {} when there is no file.
load_list_mappings(file) == file

\* Mutant: the file is written at the end of every run.
ShouldSave_Always(updated) == TRUE

\* if mappings_updated: save_list_mappings(list_mappings)
ShouldSave(updated) == updated

-----------------------------------------------------------------------------
\* Specification of POST /jobs/sync-tmdb and the sync job it queues.

Users == {"alice", "bob"}
LikedFilm(name, rating) == [name |-> name, year |-> 1999, rating |-> rating, liked |-> TRUE]
LikedFilmA == LikedFilm("A", 10)
SyncEnv(search_a, add, created, create) ==
    UpdateEnv([t \in Titles |-> IF t = "A" THEN search_a ELSE Empty],
              "ok", "ok", "ok", add)
    @@ ListsEnv(created, create)
UserScenario(flt, movies, e) == [fault |-> flt, films_data |-> movies, env |-> e]
OneFilm == [movies |-> <<<<1, LikedFilmA>>>>]
ThreeFilms ==
    [movies |-> <<<<1, LikedFilm("A", 6)>>, <<2, LikedFilm("B", 10)>>,
                  <<3, LikedFilm("C", 8)>>>>]
UnlikedFilm == [movies |-> <<<<1, [name |-> "A", year |-> 1999, rating |-> 10]>>>>]
Scenarios ==
    {UserScenario("none", OneFilm, SyncEnv(Match(1), "ok", "absent", "id")),
     UserScenario("none", NoMovies, SyncEnv(Match(1), "ok", "found", "id")),
     UserScenario("KeyError", NoMovies, SyncEnv(Match(1), "ok", "absent", "id")),
     UserScenario("none", OneFilm, SyncEnv(Match(1), "ok", "absent", "noid")),
     UserScenario("none", OneFilm, SyncEnv(Match(1), "ok", "NotFound", "id")),
     UserScenario("none", OneFilm, SyncEnv(Raise("NotFound"), "ok", "absent", "id")),
     UserScenario("none", OneFilm, SyncEnv(Match(1), "ConnectionError", "found", "id")),
     UserScenario("none", ThreeFilms, SyncEnv(Match(1), "ok", "found", "id")),
     UserScenario("none", UnlikedFilm, SyncEnv(Match(1), "ok", "absent", "id"))}
IdleScenario == UserScenario("none", NoMovies, SyncEnv(Match(1), "ok", "found", "id"))
SyncLimits == (1..MaxSyncLimit) \cup {SyncLimit}
\* The environment: the settings get_tmdb_config() reads, and how the
\* TMDbService gets its session ("session": TMDB_SESSION_ID or a login that
\* works; "none": no credentials; "fails": the login raises).
Configs ==
    {get_tmdb_config(enabled, api_key, v4_access_token, sync_limit) @@ [auth |-> auth] :
        enabled \in BOOLEAN, api_key \in BOOLEAN, v4_access_token \in BOOLEAN,
        sync_limit \in SyncLimits, auth \in {"session", "none", "fails"}}

InitSync ==
    /\ pc = "call"
    /\ data = <<>> /\ limit = None /\ page = 1 /\ page_size = 1
    /\ sort_key = "None" /\ reverse = FALSE /\ result = NoResult
    /\ films_data = NoMovies /\ films = <<>>
    /\ OrchUnused
    /\ SvcUnused
    /\ config \in Configs
    /\ \E n \in 1..MaxUsers : usernames \in [1..n -> Users]
    /\ queue = <<>>
    /\ idx = 0
    /\ job_log = <<>>
    /\ list_mappings = <<>>
    /\ mappings_updated = FALSE
    /\ mappings_file \in {<<>>, ("alice" :> 7)}
    /\ IF config.enabled /\ config.api_key /\ config.v4_access_token
       THEN scenario \in [Users -> Scenarios]
       ELSE scenario = [u \in Users |-> IdleScenario]
    /\ catalog = (7 :> OldItems) @@ (8 :> <<>>)
    /\ tmdb_session = FALSE
    /\ AppUnused

orchRest == <<endpoint, sort_by, sort_order, fault, watchlist_data, user_stats, outcome>>
svcRest == <<method, session_id, list_films, clear_first, env, list_items, ret>>

\* The handler of POST /jobs/sync-tmdb, for a request that passed validation.
TriggerTmdbSync ==
    /\ pc = "call"
    /\ LET r == trigger_tmdb_sync(config, usernames, queue)
       IN  /\ http' = r.http
           /\ queue' = r.queue
           /\ pc' = IF r.queue # <<>> THEN "queued" ELSE "done"
    /\ UNCHANGED <<pagVars, filmVars, orchRest, svcVars>>
    /\ UNCHANGED <<config, usernames, idx, job_log, list_mappings, mappings_updated,
                   mappings_file, scenario, catalog, tmdb_session>>
    /\ UNCHANGED appVars

\* The background task after the response: run_sync_job up to the loop:
\* the configuration checks, load_list_mappings() and TMDbService(...).
RunSyncJob ==
    /\ pc = "queued" /\ queue # <<>>
    /\ queue' = Tail(queue)
    /\ IF ~JobConfigured(config) \/ Head(queue) = <<>>
       THEN /\ job_log' = Append(job_log, <<"return">>)
            /\ pc' = "done"
            /\ UNCHANGED <<idx, list_mappings, mappings_updated, tmdb_session>>
       ELSE IF config.auth = "fails"
       THEN /\ job_log' = job_log \o <<<<"start">>, <<"job-error">>, <<"completed">>>>
            /\ pc' = "done"
            /\ list_mappings' = load_list_mappings(mappings_file)
            /\ mappings_updated' = FALSE
            /\ UNCHANGED <<idx, tmdb_session>>
       ELSE /\ job_log' = Append(job_log, <<"start">>)
            /\ pc' = "loop"
            /\ idx' = 1
            /\ list_mappings' = load_list_mappings(mappings_file)
            /\ mappings_updated' = FALSE
            /\ tmdb_session' = (config.auth = "session")
    /\ UNCHANGED <<pagVars, filmVars, orchVars, svcVars>>
    /\ UNCHANGED <<config, usernames, mappings_file, scenario, catalog>>
    /\ UNCHANGED appVars

\* One pass of the loop; the pass for the last username runs on to the end
\* of the job, save_list_mappings() included. An exception the loop's
\* handler does not catch reaches the outer handler, past the save.
ProcessUser ==
    /\ pc = "loop" /\ idx \in 1..Len(usernames)
    /\ \E s \in {process_user(usernames[idx], scenario[usernames[idx]], list_mappings,
                                tmdb_session, catalog, calls, config)} :
       LET u == usernames[idx]
           caught == s.raised = None \/ PerUserCatches(Val(s.raised).kind)
           last == idx = Len(usernames)
           updated == mappings_updated \/ s.added
       IN  /\ list_mappings' = s.mappings
           /\ mappings_updated' = updated
           /\ catalog' = s.catalog
           /\ calls' = s.calls
           /\ idx' = idx + 1
           /\ IF ~caught
              THEN /\ job_log' = job_log \o <<<<"user", u, "raised", s.invoked, s.fetched>>,
                                               <<"job-error">>, <<"completed">>>>
                   /\ pc' = "done"
                   /\ UNCHANGED mappings_file
              ELSE /\ job_log' = job_log
                                 \o <<<<"user", u, IF s.raised = None THEN s.tag ELSE "error",
                                       s.invoked, s.fetched>>>>
                                 \o (IF last /\ ShouldSave(updated) THEN <<<<"save">>>> ELSE <<>>)
                                 \o (IF last THEN <<<<"completed">>>> ELSE <<>>)
                   /\ pc' = IF last THEN "done" ELSE "loop"
                   /\ mappings_file' = IF last /\ ShouldSave(updated)
                                       THEN save_list_mappings(mappings_file, s.mappings)
                                       ELSE mappings_file
    /\ UNCHANGED <<pagVars, filmVars, orchVars, svcRest>>
    /\ UNCHANGED <<config, usernames, queue, scenario, tmdb_session>>
    /\ UNCHANGED appVars

NextSync == TriggerTmdbSync \/ RunSyncJob \/ ProcessUser

SpecSync == InitSync /\ [][NextSync]_vars

-----------------------------------------------------------------------------
\* Reference definitions the properties are stated against

\* The stable sort, by rank: the item at input position i goes to position
\* 1 + (number of items that must precede it), where j precedes i when its
\* key comes strictly first in the direction asked, or ties and j < i.
Precedes(d, k, rev, j, i) ==
    \/ (IF rev THEN Key(k, d[j]) > Key(k, d[i]) ELSE Key(k, d[j]) < Key(k, d[i]))
    \/ (Key(k, d[j]) = Key(k, d[i]) /\ j < i)
Rank(d, k, rev, i) == 1 + Cardinality({j \in 1..Len(d) : Precedes(d, k, rev, j, i)})
RefSorted(d, k, rev) ==
    IF k = "None" THEN d
    ELSE [r \in 1..Len(d) |-> d[CHOOSE i \in 1..Len(d) : Rank(d, k, rev, i) = r]]

\* Number of items left by data[:limit]; None and 0 leave all of them.
RefEffectiveCount(n, l) ==
    IF l = None THEN n
    ELSE IF Val(l) = 0 THEN n
    ELSE IF Val(l) > 0 THEN Min(Val(l), n)
    ELSE Max(n + Val(l), 0)
RefLimited(s, l) == [i \in 1..RefEffectiveCount(Len(s), l) |-> s[i]]

\* Page p >= 1 of s: the items at positions (p-1)*ps+1 .. p*ps that exist.
RefPage(s, p, ps) ==
    [i \in 1..Max(0, Min(ps, Len(s) - (p - 1) * ps)) |-> s[(p - 1) * ps + i]]

\* ceil(a / b) for a >= 0, b >= 1, without the code's formula.
RefCeil(a, b) == CHOOSE q \in 0..a : q * b >= a /\ (q = 0 \/ (q - 1) * b < a)

IsPrefix(s, t) == Len(s) <= Len(t) /\ s = SubSeq(t, 1, Len(s))

\* paginated_data of pages 1..n of the call in the current state, concatenated.
RECURSIVE ConcatPages(_)
ConcatPages(n) ==
    IF n = 0 THEN <<>>
    ELSE ConcatPages(n - 1)
         \o paginate_data(data, limit, n, page_size, sort_key, reverse).paginated_data

Done == pc = "done"
PositiveLimit == limit # None /\ Val(limit) >= 1
NoneOrPositiveLimit == limit = None \/ Val(limit) >= 1

-----------------------------------------------------------------------------
\* Properties of paginate_data

\* C1: page coverage. For limit None or positive, the pages 1..total_pages
\* concatenated are exactly the sorted-then-limited sequence: every element
\* once, none missing, in order.
C1_PageCoverage ==
    (Done /\ NoneOrPositiveLimit) =>
        ConcatPages(result.total_pages) = RefLimited(RefSorted(data, sort_key, reverse), limit)

C1_Witness ==
    /\ Done /\ PositiveLimit /\ sort_key = "half" /\ reverse
    /\ Val(limit) < Len(data)
    /\ result.total_pages >= 2
    /\ page = result.total_pages
    /\ result.items_count > 0
    /\ RefSorted(data, sort_key, reverse) # data

\* C2: stage order. With a sort key and a limit L >= 1 every item on the
\* returned page is among the first L items of the fully sorted input, and
\* the page count is computed from min(L, len(data)).
C2_SortThenLimitThenPage ==
    (Done /\ sort_key # "None" /\ PositiveLimit) =>
        LET top == RefLimited(RefSorted(data, sort_key, reverse), limit)
            m == Min(Val(limit), Len(data))
        IN  /\ \A i \in 1..Len(result.paginated_data) :
                   \E j \in 1..Len(top) : top[j] = result.paginated_data[i]
            /\ result.total_pages = (IF m = 0 THEN 1 ELSE RefCeil(m, page_size))

\* A call where limiting the unsorted input first would give another item.
C2_Witness ==
    /\ Done /\ sort_key = "half" /\ PositiveLimit
    /\ Val(limit) < Len(data)
    /\ result.items_count > 0
    /\ \E i \in 1..Val(limit) :
           \A j \in 1..Len(result.paginated_data) : data[i] # result.paginated_data[j]
    /\ result.total_pages < RefCeil(Len(data), page_size)

\* C3: total_pages is ceil(effective_count / page_size), 1 when the effective
\* count is 0, and never zero.
C3_TotalPages ==
    Done =>
        LET effective_count == RefEffectiveCount(Len(data), limit)
        IN  /\ result.total_pages =
                   (IF effective_count = 0 THEN 1 ELSE RefCeil(effective_count, page_size))
            /\ result.total_pages # 0

\* A limited count that does not divide into whole pages.
C3_Witness ==
    /\ Done /\ PositiveLimit
    /\ Val(limit) <= Len(data)
    /\ Val(limit) % page_size # 0
    /\ result.total_pages >= 2


\* C4: total_count is the length of the input, whatever the limit, page,
\* page_size, sort_key and reverse.
C4_TotalCount == Done => result.total_count = Len(data)

C4_Witness ==
    /\ Done /\ PositiveLimit /\ Val(limit) < Len(data)
    /\ result.total_count > Val(limit)
    /\ result.items_count < result.total_count

\* C5: stability. With a sort key, the items of one key value come out in
\* their input order, ascending and descending alike; a constant key returns
\* the input order.
C5_Stable ==
    (Done /\ sort_key # "None") =>
        LET out == ConcatPages(result.total_pages)
        IN  /\ \A v \in {Key(sort_key, x) : x \in Items} :
                   LET HasKey(x) == Key(sort_key, x) = v
                   IN  /\ IsPrefix(SelectSeq(out, HasKey), SelectSeq(data, HasKey))
                       /\ ~Truthy(limit) => SelectSeq(out, HasKey) = SelectSeq(data, HasKey)
            /\ (sort_key = "const" /\ ~Truthy(limit)) => out = data

\* A descending sort that moved items while two distinct items tied.
C5_Witness ==
    /\ Done /\ sort_key = "half" /\ reverse /\ limit = None
    /\ \E i, j \in 1..Len(data) :
           i < j /\ data[i] # data[j] /\ Key(sort_key, data[i]) = Key(sort_key, data[j])
    /\ ConcatPages(result.total_pages) # data
    /\ Len(data) = 3

\* C6: a page beyond the last page gives an empty page, items_count 0,
\* has_next false and has_previous true.
C6_BeyondLastPage ==
    (Done /\ page > result.total_pages) =>
        /\ result.paginated_data = <<>>
        /\ result.items_count = 0
        /\ result.has_next = FALSE
        /\ result.has_previous = TRUE

C6_Witness == Done /\ page > result.total_pages /\ result.total_pages >= 2 /\ data # <<>>

\* C7: for page >= 1, has_next is (page < total_pages) and has_previous is
\* (page > 1); on empty input total_count = 0, total_pages = 1,
\* items_count = 0, has_next is false and has_previous is (page > 1).
C7_NextPrevious ==
    (Done /\ page >= 1) =>
        /\ result.has_next = (page < result.total_pages)
        /\ result.has_previous = (page > 1)
        /\ data = <<>> =>
               /\ result.total_count = 0
               /\ result.total_pages = 1
               /\ result.items_count = 0
               /\ result.has_next = FALSE
               /\ result.has_previous = (page > 1)

C7_Witness == Done /\ page = 2 /\ result.has_next /\ result.has_previous

\* C8: a limit of None, of 0 and of len(data) give the same paginated_data
\* and the same total_pages for the same data, page, page_size and sort.
C8_NoOpLimit ==
    (Done /\ limit \in {None, Some(0), Some(Len(data))}) =>
        \A l \in {None, Some(0), Some(Len(data))} :
            LET other == paginate_data(data, l, page, page_size, sort_key, reverse)
            IN  /\ result.paginated_data = other.paginated_data
                /\ result.total_pages = other.total_pages

C8_Witness == Done /\ limit = Some(0) /\ result.items_count > 0 /\ Len(data) >= 2

\* C9: with no sort key no sort is applied: limit and paging run over the
\* input order, whatever the reverse flag, and the input list is not modified
\* by the call.
C9_NoSortKey ==
    [][(pc = "call" /\ pc' = "done" /\ sort_key = "None") =>
          /\ data' = data
          /\ result' = paginate_data(data, limit, page, page_size, "None", ~reverse)
          /\ (page >= 1 /\ (limit = None \/ Val(limit) >= 0)) =>
                 result'.paginated_data = RefPage(RefLimited(data, limit), page, page_size)]_vars

\* An unsorted input, paged with reverse set and no sort key.
C9_Witness ==
    /\ Done /\ sort_key = "None" /\ reverse
    /\ Len(data) = 3 /\ data[1] > data[2]
    /\ result.paginated_data = <<data[1], data[2]>>

-----------------------------------------------------------------------------
\* Properties of get_rated_and_liked_films

\* The input entries that qualify: rating present and > 0, liked present and true.
Qualifies(film) ==
    /\ "rating" \in DOMAIN film /\ film.rating > 0
    /\ "liked" \in DOMAIN film /\ film.liked = TRUE
InputMovies == IF "movies" \in DOMAIN films_data THEN films_data.movies ELSE <<>>
QualifyingEntries == {i \in 1..Len(InputMovies) : Qualifies(InputMovies[i][2])}

\* C10: exactly one record per input film that is rated (> 0) and liked, none
\* for any other film, in the iteration order of the input mapping, each with
\* its mapping key as slug; a missing or empty mapping gives an empty list.
C10_RatedAndLiked ==
    Done =>
        /\ Len(films) = Cardinality(QualifyingEntries)
        /\ \A k \in 1..Len(films) :
               \E i \in QualifyingEntries :
                   /\ films[k].slug = InputMovies[i][1]
                   /\ k = Cardinality({j \in QualifyingEntries : j <= i})
        /\ InputMovies = <<>> => films = <<>>

\* Two films kept, in mapping order which is not slug order, one film dropped.
C10_Witness ==
    /\ Done /\ Len(films) = 2 /\ Len(InputMovies) > 2
    /\ films[1].slug > films[2].slug


\* The source rating of the input entry with the given slug.
SourceRating(slug) ==
    LET i == CHOOSE j \in 1..Len(InputMovies) : InputMovies[j][1] = slug
    IN  InputMovies[i][2].rating

\* C20: for every included film with source rating r in 1..10 the derived
\* rating is exactly r / 2 (in tenths of a star: twice it is 10 r), a multiple
\* of 0.5 in 0.5..5.0; 10, 9, 5, 1 give 5.0, 4.5, 2.5, 0.5.
C20_RatingHalved ==
    Done =>
        \A k \in 1..Len(films) :
            LET r == SourceRating(films[k].slug)
                derived == films[k].rating
            IN  /\ r \in 1..MaxRating
                /\ 2 * derived = 10 * r
                /\ \E h \in 1..10 : derived = 5 * h
                /\ (r = 10 => derived = 50)
                /\ (r = 9 => derived = 45)
                /\ (r = 5 => derived = 25)
                /\ (r = 1 => derived = 5)

\* A film rated 9 came out as 4.5.
C20_Witness ==
    /\ Done /\ Len(films) = 1
    /\ SourceRating(films[1].slug) = 9
    /\ films[1].rating = 45

-----------------------------------------------------------------------------
\* Properties of the user endpoints

\* The order the claim names, without the code's key functions:
\* case-insensitive title with no title first, year with no year as 0,
\* rating with no rating as 0.
RefTitleRank(t) ==
    CASE t = None -> 0
      [] t = Some(TitleLowerA) -> 1
      [] t \in {Some(TitleB), Some(TitleLowerB)} -> 2
RefSortValue(by, x) ==
    CASE by = "title" -> RefTitleRank(x.title)
      [] by = "year" -> (IF x.year = None THEN 0 ELSE Val(x.year))
      [] by = "rating" -> (IF "rating" \in DOMAIN x THEN x.rating ELSE 0)

\* The answer of the endpoint of the current state for page p.
OrchCall(p) ==
    IF endpoint = "watchlist"
    THEN get_user_watchlist(fault, watchlist_data, limit, p, page_size, sort_by, sort_order)
    ELSE get_top_rated_films(fault, films_data, limit, p, page_size, sort_by, sort_order)

RECURSIVE OrchPages(_)
OrchPages(n) == IF n = 0 THEN <<>> ELSE OrchPages(n - 1) \o OrchCall(n).body.films

ListRequestServed == Done /\ endpoint \in {"watchlist", "top-rated"} /\ fault = "none"

\* C11: the list endpoints order the films by the key sort_by names, ascending
\* for "asc" and descending for "desc": consecutive films of the sorted
\* sequence never step the wrong way, and the sort does not fail on a film
\* without title or year.
C11_SortedBySortBy ==
    ListRequestServed =>
        /\ outcome.kind = "ok"
        /\ LET seq == OrchPages(outcome.body.total_pages)
           IN  \A i \in 1..(Len(seq) - 1) :
                   IF sort_order = "desc"
                   THEN RefSortValue(sort_by, seq[i]) >= RefSortValue(sort_by, seq[i + 1])
                   ELSE RefSortValue(sort_by, seq[i]) <= RefSortValue(sort_by, seq[i + 1])

\* Titles "B" then "a" at the source come back as "a" then "B".
C11_Witness ==
    /\ ListRequestServed /\ endpoint = "top-rated"
    /\ sort_by = "title" /\ sort_order = "asc" /\ limit = None
    /\ Len(films_data.movies) = 2
    /\ Get(films_data.movies[1][2], "name") = Some(TitleB)
    /\ outcome.body.films_count = 2
    /\ outcome.body.films[1].title = Some(TitleLowerA)
    /\ outcome.body.films[2].title = Some(TitleB)

\* C12: a failure inside an orchestrator leaves it as a ValueError carrying
\* the original message, which the router answers with 404; no other error
\* kind leaves an orchestrator, so no request is answered with 500.
C12_UniformFetchError ==
    Done /\ endpoint # "none" =>
        /\ outcome.kind \in {"ok", "ValueError"}
        /\ http.status \in {200, 404}
        /\ fault # "none" =>
               /\ outcome.kind = "ValueError"
               /\ outcome.message[2] = FaultMessage(fault)
               /\ http.status = 404
               /\ http.detail = outcome.message

C12_Witness ==
    /\ Done /\ endpoint = "watchlist" /\ fault = "KeyError"
    /\ outcome.kind = "ValueError"
    /\ http.status = 404

-----------------------------------------------------------------------------
\* Properties of TMDbService

UpdateDone == Done /\ method = "update_list_with_movies"
UpdateReturned == UpdateDone /\ ret.kind = "ok"

\* What the inputs say, without the code's control flow.
HasTitle(film) == film.title # None /\ Val(film.title) # ""
TitledFilms == SelectSeq(list_films, HasTitle)
LookupOf(title) == IF title \in DOMAIN env.search THEN env.search[title] ELSE Empty
FoundMatch(film) == HasTitle(film) /\ LookupOf(Val(film.title)).kind = "match"
RefMatchedIds ==
    LET found == SelectSeq(list_films, FoundMatch)
    IN  [i \in 1..Len(found) |-> LookupOf(Val(found[i].title)).id]
ClearRefused == clear_first /\ list_films # <<>> /\ ~session_id
ClearErrors ==
    clear_first /\ list_films # <<>> /\ session_id
    /\ (env.clear_get # "ok" \/ env.clear # "ok")
AddFails ==
    RefMatchedIds # <<>> /\ (~session_id \/ env.add_get # "ok" \/ env.add # "ok")

\* The lookups of the call log, in the order they were made.
IsSearchCall(c) == c[1] = "movie_search"
SearchCalls == SelectSeq(calls, IsSearchCall)
IsMatchingCall(c) == IsSearchCall(c) /\ LookupOf(c[2]).kind = "match"
IsMissingCall(c) == IsSearchCall(c) /\ LookupOf(c[2]).kind # "match"
IsAddCall(c) == c[1] = "add_items"

\* C13: update_list_with_movies returns success = false exactly when the
\* requested clear fails (the catalog errors or refuses) or the bulk add
\* fails, and success = true in every other case.
C13_SuccessFalseIffFailure ==
    UpdateReturned =>
        (ret.body.success = FALSE <=> (ClearRefused \/ ClearErrors \/ AddFails))

\* C14 as stated: in every result total_films = len(films), matched counts
\* the lookups that returned a match, added = matched after a successful add
\* and 0 otherwise, and matched + len(not_matched) is the number of films
\* with a title.
C14_ResultCountsAlways ==
    UpdateReturned =>
        /\ ret.body.total_films = Len(list_films)
        /\ ret.body.matched = Len(SelectSeq(calls, IsMatchingCall))
        /\ LET adds == SelectSeq(calls, IsAddCall)
           IN  IF adds # <<>> /\ env.add = "ok"
               THEN ret.body.added = Len(adds[1][2]) /\ ret.body.added = ret.body.matched
               ELSE ret.body.added = 0
        /\ ret.body.matched + Len(ret.body.not_matched) = Len(TitledFilms)

\* C14: the counts as stated, except that the result returned after a
\* refused clear comes before any lookup: there matched = 0 and not_matched
\* is empty whatever the films; in every other result
\* matched + len(not_matched) is the number of films with a title.
C14_ResultCounts ==
    UpdateReturned =>
        /\ ret.body.total_films = Len(list_films)
        /\ ret.body.matched = Len(SelectSeq(calls, IsMatchingCall))
        /\ LET adds == SelectSeq(calls, IsAddCall)
           IN  IF adds # <<>> /\ env.add = "ok"
               THEN ret.body.added = Len(adds[1][2]) /\ ret.body.added = ret.body.matched
               ELSE ret.body.added = 0
        /\ IF ClearRefused
           THEN ret.body.matched = 0 /\ ret.body.not_matched = <<>> /\ SearchCalls = <<>>
           ELSE ret.body.matched + Len(ret.body.not_matched) = Len(TitledFilms)

\* A film without a title is skipped next to one that is matched and added.
C14_Witness ==
    /\ UpdateReturned /\ ~ClearRefused
    /\ Len(list_films) = 2 /\ Len(TitledFilms) = 1
    /\ ret.body.matched = 1 /\ ret.body.added = 1
    /\ ret.body.not_matched = <<>>

\* C15: films are looked up in input order, and not_matched holds one entry
\* "{title} ({year})" per titled film whose lookup found no match, in input
\* order.
C15_LookupOrder ==
    UpdateDone =>
        LET expected == [i \in 1..Len(TitledFilms) |->
                            CallSearch(Val(TitledFilms[i].title), TitledFilms[i].year)]
            missing == SelectSeq(SearchCalls, IsMissingCall)
        IN  /\ IsPrefix(SearchCalls, expected)
            /\ ret.kind = "ok" /\ ~ClearRefused => SearchCalls = expected
            /\ ret.kind = "ok" =>
                   ret.body.not_matched =
                       [i \in 1..Len(missing) |->
                           NotMatchedEntry(Some(missing[i][2]), missing[i][3])]

\* Films "A" then "B", neither found: two entries, "A" first.
C15_Witness ==
    /\ UpdateReturned
    /\ Len(SearchCalls) = 2
    /\ Len(ret.body.not_matched) = 2
    /\ ret.body.not_matched[1][1] = Some("A")
    /\ ret.body.not_matched[2][1] = Some("B")

\* C16: when an update with clear_first of a non-empty film list reports
\* success, the list holds exactly the identifiers matched in this run.
C16_ListOverwritten ==
    UpdateReturned /\ clear_first /\ list_films # <<>> /\ ret.body.success =>
        list_items = RefMatchedIds

\* C18: every call to the catalog comes right after the rate-limit delay.
C18_DelayBeforeEveryCall ==
    Done /\ method # "none" =>
        \A i \in 1..Len(calls) :
            calls[i][1] # "sleep" => i > 1 /\ calls[i - 1][1] = "sleep"

-----------------------------------------------------------------------------
\* Properties of the sync endpoint and job

IsUserEntry(e) == e[1] = "user"
Attempted ==
    LET es == SelectSeq(job_log, IsUserEntry)
    IN  [i \in 1..Len(es) |-> es[i][2]]
LoopReached == job_log # <<>> /\ job_log[1][1] = "start" /\ config.auth # "fails"

\* C17: the job attempts the usernames in order, one per pass, and an error
\* in one pass is caught and logged, so that once the loop has started every
\* username of the list is attempted.
C17_EveryUserAttempted ==
    config # NoConfig =>
        /\ IsPrefix(Attempted, usernames)
        /\ \A i \in 1..Len(job_log) : job_log[i][1] = "user" => job_log[i][3] # "raised"
        /\ Done /\ LoopReached => Attempted = usernames

\* The first user's pass raised, the second user's list was synced.
C17_Witness ==
    /\ Done /\ config # NoConfig /\ LoopReached
    /\ Len(usernames) = 2
    /\ Attempted = usernames
    /\ job_log[2][3] = "error"
    /\ job_log[3][3] = "synced"

\* C19: the endpoint answers 200 exactly when sync is enabled and both
\* credentials are set, and only then is a run queued; after a 503 nothing is
\* queued or run. The job takes its steps after the acknowledgment, which
\* has job_started = true and the request's usernames at every later point
\* of the run.
C19_AcknowledgedIffStarted ==
    config # NoConfig =>
        /\ pc = "call" => http = NoResponse /\ queue = <<>> /\ job_log = <<>>
        /\ pc # "call" =>
              /\ http.status = 200 <=>
                     (config.enabled /\ config.api_key /\ config.v4_access_token)
              /\ http.status \in {200, 503}
              /\ http.status = 503 => queue = <<>> /\ job_log = <<>> /\ Done
              /\ http.status = 200 =>
                     /\ http.body.job_started
                     /\ http.body.usernames = usernames
                     /\ pc = "queued" <=> queue = <<usernames>>
                     /\ pc = "queued" <=> job_log = <<>>

\* The run failed at the construction of the service; the acknowledgment
\* still stands.
C19_Witness ==
    /\ Done /\ config # NoConfig
    /\ http.status = 200 /\ http.body.job_started
    /\ job_log # <<>> /\ job_log[Len(job_log) - 1][1] = "job-error"

-----------------------------------------------------------------------------
\* Properties of paginate_data: pages out of range and page lengths

\* The sorted and limited data of the call in the current state.
EffectiveData == RefLimited(RefSorted(data, sort_key, reverse), limit)

\* C21: a page that is zero or negative gives an empty paginated_data.
C21_NonPositivePageEmpty ==
    Done /\ page_size >= 1 /\ page <= 0 =>
        result.paginated_data = <<>> /\ result.items_count = 0

\* What the code returns in the case of C21: page 0 gives an empty
\* paginated_data; a negative page gives the slice counted from the end of
\* the effective data: with
\* n = effective count, it is empty exactly when n <= -page * page_size, and
\* otherwise holds the items at positions
\* max(n + (page - 1) * page_size, 0) + 1 .. n + page * page_size.
ZeroPageEmptyNegativeFromEnd ==
    Done /\ page_size >= 1 /\ page <= 0 =>
        LET n == Len(EffectiveData)
            stop == n + page * page_size
        IN  /\ result.items_count = Len(result.paginated_data)
            /\ page = 0 => result.paginated_data = <<>>
            /\ page < 0 =>
                  /\ result.paginated_data = <<>> <=> stop <= 0
                  /\ stop > 0 =>
                        result.paginated_data =
                            SubSeq(EffectiveData, Max(stop - page_size, 0) + 1, stop)

\* Page -1 of a list longer than page_size is not empty.
NegativePageNotEmpty ==
    /\ Done /\ page < 0 /\ limit = None
    /\ Len(data) > page_size
    /\ result.items_count > 0

\* C22: on a page 1..total_pages of non-empty effective data, items_count is
\* the length of paginated_data: page_size before the last page, and
\* effective count - (total_pages - 1) * page_size, between 1 and page_size,
\* on the last; a positive limit below page_size gives one page of
\* min(limit, len(data)) items.
C22_ItemsCount ==
    Done /\ page_size >= 1 /\ EffectiveData # <<>>
         /\ page >= 1 /\ page <= result.total_pages =>
        LET n == Len(EffectiveData)
            rest == n - (result.total_pages - 1) * page_size
        IN  /\ result.items_count = Len(result.paginated_data)
            /\ result.items_count <= page_size
            /\ page < result.total_pages => result.items_count = page_size
            /\ page = result.total_pages =>
                  result.items_count = rest /\ rest >= 1 /\ rest <= page_size
            /\ PositiveLimit /\ Val(limit) < page_size =>
                  /\ result.total_pages = 1
                  /\ result.items_count = Min(Val(limit), Len(data))

\* A partial last page: three items in pages of two.
C22_Witness ==
    /\ Done /\ page_size = 2 /\ page = 2 /\ result.total_pages = 2
    /\ Len(EffectiveData) = 3
    /\ result.items_count = 1

-----------------------------------------------------------------------------
\* Properties of update_list_with_movies: the order of its catalog calls

\* One search per film with a title, in input order.
TitledSearches ==
    [i \in 1..Len(TitledFilms) |->
        CallSearch(Val(TitledFilms[i].title), TitledFilms[i].year)]
AddCalls == SelectSeq(calls, IsAddCall)
IsClearCall(c) == c[1] = "clear"
ClearCalls == SelectSeq(calls, IsClearCall)

\* C23: at most one bulk add per call, made after every film was looked up
\* and only with at least one identifier queued; it carries the identifiers
\* of the matched films in input order; with no match there is no add.
C23_OneAddAfterLookups ==
    UpdateDone =>
        /\ Len(AddCalls) <= 1
        /\ RefMatchedIds = <<>> => AddCalls = <<>>
        /\ AddCalls # <<>> =>
              /\ calls[Len(calls)] = AddCalls[1]
              /\ SearchCalls = TitledSearches
              /\ AddCalls[1][2] # <<>>
              /\ AddCalls[1][2] = RefMatchedIds

\* Films "A" and "B" both matched: one add with the identifiers 1, 2.
C23_Witness ==
    /\ UpdateReturned
    /\ Len(AddCalls) = 1
    /\ AddCalls[1][2] = <<1, 2>>
    /\ ret.body.added = 2

\* The call gets as far as the lookups: there are films, and the clear, if
\* asked for, neither refused nor raised out of clear_list.
LookupsReached ==
    /\ list_films # <<>>
    /\ clear_first => session_id /\ env.clear_get # "NotFound"
                      /\ (env.clear_get = "ok" => env.clear # "NotFound")

\* C24: one search per film with a title and none for a film without; a
\* search that fails or finds nothing makes the film not matched, the loop
\* goes on, and no search error reaches the caller.
C24_SearchErrorIsNotMatched ==
    UpdateDone /\ LookupsReached =>
        /\ SearchCalls = TitledSearches
        /\ ret.kind # "ok" => calls[Len(calls)][1] # "movie_search"
        /\ ret.kind = "ok" =>
              Len(ret.body.not_matched) =
                  Len(TitledFilms) - Len(SelectSeq(SearchCalls, IsMatchingCall))

-----------------------------------------------------------------------------
\* The sync job's mapping bookkeeping

\* What one pass of the loop adds to the job's log and to the call log.
PassEntry == job_log'[Len(job_log) + 1]
PassLog == SubSeq(job_log', Len(job_log) + 1, Len(job_log'))
PassCalls == SubSeq(calls', Len(calls) + 1, Len(calls'))
IsGetOrCreate(name) == name = "get_or_create_list"
IsListsCall(c) == c = CallCreatedLists \/ c = CallCreateList
IsSaveEntry(e) == e = <<"save">>
\* The id get_or_create_list hands back where the account's lists can be
\* read: the list found by name, else the one created, else none.
RefListId(sess, e) ==
    IF ~sess THEN None
    ELSE IF e.created = "found" THEN Some(e.found_id)
    ELSE IF e.create = "id" THEN Some(e.new_id)
    ELSE None
ListsReadable(e) == e.created \in {"found", "absent"}
\* The in-memory mappings keep everything loaded from the file and add
\* entries only for usernames already passed.
ExtendsLoaded(maps, upto) ==
    /\ \A k \in DOMAIN mappings_file : k \in DOMAIN maps /\ maps[k] = mappings_file[k]
    /\ DOMAIN maps \subseteq DOMAIN mappings_file \cup {usernames[i] : i \in 1..upto}

C26_Step ==
    IF pc = "loop"
    THEN LET u == usernames[idx]
             e == scenario[u].env
         IN  /\ IsUserEntry(PassEntry) /\ PassEntry[2] = u
             /\ IF u \in DOMAIN list_mappings
                THEN /\ SelectSeq(PassEntry[4], IsGetOrCreate) = <<>>
                     /\ SelectSeq(PassCalls, IsListsCall) = <<>>
                     /\ list_mappings' = list_mappings
                     /\ \A id \in DOMAIN catalog :
                            id # list_mappings[u] => catalog'[id] = catalog[id]
                ELSE /\ SelectSeq(PassEntry[4], IsGetOrCreate) = <<"get_or_create_list">>
                     /\ Head(PassEntry[4]) = "get_or_create_list"
                     /\ list_mappings' \in {list_mappings,
                                            (u :> e.new_id) @@ list_mappings,
                                            (u :> e.found_id) @@ list_mappings}
                     /\ ListsReadable(e) =>
                            list_mappings' =
                                IF Truthy(RefListId(tmdb_session, e))
                                THEN (u :> Val(RefListId(tmdb_session, e))) @@ list_mappings
                                ELSE list_mappings
             /\ ExtendsLoaded(list_mappings', idx)
             /\ Len(SelectSeq(job_log', IsSaveEntry)) <= 1
             /\ IF pc' = "done"
                THEN /\ SelectSeq(PassLog, IsSaveEntry) # <<>>
                            <=> list_mappings' # mappings_file
                     /\ mappings_file' = list_mappings'
                     /\ SelectSeq(PassLog, IsSaveEntry) # <<>>
                            => PassLog[Len(PassLog) - 1] = <<"save">>
                ELSE /\ SelectSeq(PassLog, IsSaveEntry) = <<>>
                     /\ mappings_file' = mappings_file
    ELSE /\ mappings_file' = mappings_file
         /\ SelectSeq(job_log', IsSaveEntry) = <<>>

\* C26: in a sync run a username with a mapping reuses the mapped list id
\* and get_or_create_list is not called for it; a username without one gets
\* exactly one get_or_create_list call, and the id it returns, if any, is
\* recorded. The mapping file is written at most once, by the step that ends
\* the run, and exactly when a mapping was recorded in the run; what is
\* written is the loaded mappings plus the recorded ones, and a run that
\* recorded nothing leaves the file as it was.
C26_MappingsReusedRecordedSavedOnce == [][C26_Step]_vars

\* A run over alice, mapped in the file, and bob, not mapped: alice's pass
\* goes straight to the fetch, bob's starts with get_or_create_list, and the
\* file written at the end holds both.
C26_Witness ==
    /\ pc = "done"
    /\ usernames = <<"alice", "bob">>
    /\ Len(job_log) = 5 /\ IsUserEntry(job_log[2]) /\ IsUserEntry(job_log[3])
    /\ job_log[2][4] # <<>> /\ job_log[3][4] # <<>>
    /\ job_log[2][4][1] = "get_top_rated_films"
    /\ job_log[3][4][1] = "get_or_create_list"
    /\ job_log[4] = <<"save">>
    /\ DOMAIN mappings_file = {"alice", "bob"}
    /\ mappings_file["alice"] = 7

IsUpdate(name) == name = "update_list_with_movies"
IsCatalogListCall(c) == c = CallList \/ c = CallClear \/ IsSearchCall(c) \/ IsAddCall(c)
\* The pass fetched the user's top-rated films and got none.
FetchedNothing(entry) == entry[5] # None /\ Val(entry[5]).films = <<>>

C27_Step ==
    (pc = "loop" /\ FetchedNothing(PassEntry)) =>
        /\ SelectSeq(PassEntry[4], IsUpdate) = <<>>
        /\ SelectSeq(PassCalls, IsCatalogListCall) = <<>>
        /\ catalog' = catalog
        /\ idx' = idx + 1
        /\ IF idx < Len(usernames)
           THEN pc' = "loop"
           ELSE pc' = "done" /\ <<"job-error">> \notin {PassLog[i] : i \in 1..Len(PassLog)}

\* C27: when a user's top-rated fetch returns no film, the job does not
\* call update_list_with_movies for that user, the user's list is neither
\* cleared nor changed, and the job goes on to the next user.
C27_NoFilmsNoUpdate == [][C27_Step]_vars

\* A run whose first user, mapped to a list that has items, has only a film
\* that is not liked: the fetch returns nothing, the list keeps its items,
\* and the second user is then synced.
C27_Witness ==
    /\ pc = "done"
    /\ usernames = <<"alice", "bob">>
    /\ scenario["alice"].films_data = UnlikedFilm
    /\ Len(job_log) >= 3 /\ IsUserEntry(job_log[2]) /\ IsUserEntry(job_log[3])
    /\ job_log[2][3] = "no-films"
    /\ job_log[2][4] = <<"get_top_rated_films">>
    /\ job_log[3][3] = "synced"
    /\ catalog[7] = OldItems
    /\ catalog[8] # <<>>

-----------------------------------------------------------------------------
\* The sync job's fetch

\* The user's rated-and-liked films, best rating first, input order among
\* equal ratings, cut to the first n: their names.
SourceMovies(fd) == IF "movies" \in DOMAIN fd THEN fd.movies ELSE <<>>
RatedLiked(fd) == {i \in 1..Len(SourceMovies(fd)) : Qualifies(SourceMovies(fd)[i][2])}
RatingRank(fd, i) ==
    1 + Cardinality({j \in RatedLiked(fd) :
            \/ SourceMovies(fd)[j][2].rating > SourceMovies(fd)[i][2].rating
            \/ /\ SourceMovies(fd)[j][2].rating = SourceMovies(fd)[i][2].rating
               /\ j < i})
RefTopNames(fd, n) ==
    [r \in 1..Min(n, Cardinality(RatedLiked(fd))) |->
        SourceMovies(fd)[CHOOSE i \in RatedLiked(fd) : RatingRank(fd, i) = r][2].name]
SearchedTitles(cs) ==
    LET s == SelectSeq(cs, IsSearchCall) IN [k \in 1..Len(s) |-> s[k][2]]

C29_Step ==
    (pc = "loop" /\ SelectSeq(PassEntry[4], IsUpdate) # <<>>) =>
        LET fd == scenario[usernames[idx]].films_data
            fetched == Val(PassEntry[5])
            top == RefTopNames(fd, config.limit)
        IN  /\ config.limit >= 1 /\ config.page_size = config.limit
            /\ fetched.page = 1
            /\ fetched.films_count = Min(config.limit, Cardinality(RatedLiked(fd)))
            /\ Len(fetched.films) = fetched.films_count
            /\ [k \in 1..Len(fetched.films) |-> fetched.films[k].title] = top
            /\ fetched.total_pages = 1
            /\ fetched.has_next = FALSE
            /\ tmdb_session => SearchedTitles(PassCalls) = top

\* C29: the job fetches page 1 with page_size equal to limit, so for every
\* limit >= 1 the films handed to update_list_with_movies are the whole
\* top-limit list of the user's rated-and-liked films, best rating first:
\* min(limit, number of rated-and-liked films) of them, on a single page
\* with no next page.
C29_WholeTopListFetched == [][C29_Step]_vars

\* A run with limit 2 for a user with three rated-and-liked films: the two
\* best rated are looked up, in rating order, and the third is not.
C29_Witness ==
    /\ pc = "done"
    /\ config.limit = 2
    /\ usernames = <<"alice">>
    /\ scenario["alice"].films_data = ThreeFilms
    /\ SearchedTitles(calls) = <<"B", "C">>

-----------------------------------------------------------------------------
\* Overlapping sync runs and the mapping file

\* The two ways a run starts: the background task of POST /jobs/sync-tmdb
\* and the scheduler's job, each on a thread of its own.
RunIds == {"request", "cron"}
\* The list get_or_create_list finds or creates under the username's name.
ListIdFor(u) == IF u = "alice" THEN 7 ELSE 8
QueuedRun(us) ==
    [pc |-> "queued", usernames |-> us, idx |-> 0, list_mappings |-> <<>>,
     mappings_updated |-> FALSE, recorded |-> {}]

InitRace ==
    /\ pc = "call"
    /\ data = <<>> /\ limit = None /\ page = 1 /\ page_size = 1
    /\ sort_key = "None" /\ reverse = FALSE /\ result = NoResult
    /\ films_data = NoMovies /\ films = <<>>
    /\ OrchUnused
    /\ SvcUnused
    /\ config = NoConfig /\ usernames = <<>> /\ queue = <<>> /\ idx = 0
    /\ job_log = <<>> /\ list_mappings = <<>> /\ mappings_updated = FALSE
    /\ scenario = <<>> /\ catalog = <<>> /\ tmdb_session = FALSE
    /\ mappings_file \in {<<>>, ("alice" :> 7)}
    /\ \E n1 \in 1..MaxUsers, n2 \in 1..MaxUsers :
          \E us1 \in [1..n1 -> Users], us2 \in [1..n2 -> Users] :
             runs = [r \in RunIds |-> QueuedRun(IF r = "request" THEN us1 ELSE us2)]
    /\ cron = NoCron /\ scheduler = <<>> /\ app = "none" /\ sched_log = <<>>

raceRest == <<pc, pagVars, filmVars, orchVars, svcVars, config, usernames, queue, idx,
              job_log, list_mappings, mappings_updated, scenario, catalog,
              tmdb_session, cron, scheduler, app, sched_log>>

\* A run starts: sync_to_tmdb_job up to the loop, load_list_mappings()
\* included.
RaceLoad(r) ==
    /\ runs[r].pc = "queued"
    /\ runs' = [runs EXCEPT ![r].pc = "loop", ![r].idx = 1,
                            ![r].list_mappings = load_list_mappings(mappings_file),
                            ![r].mappings_updated = FALSE]
    /\ UNCHANGED mappings_file
    /\ UNCHANGED raceRest

\* One pass of a run's loop, between two waits on the network; the pass for
\* the last username runs on to the end of the job, save_list_mappings()
\* included. get_or_create_list returns the list's id or nothing.
RacePass(r) ==
    /\ runs[r].pc = "loop"
    /\ LET run == runs[r]
           u == run.usernames[run.idx]
           known == KnownList(run.list_mappings, u)
           last == run.idx = Len(run.usernames)
       IN  \E list_id \in IF Truthy(known) THEN {known} ELSE {None, Some(ListIdFor(u))} :
              LET added == ~Truthy(known) /\ Truthy(list_id)
                  maps == IF added THEN (u :> Val(list_id)) @@ run.list_mappings
                          ELSE run.list_mappings
                  updated == run.mappings_updated \/ added
              IN  /\ runs' = [runs EXCEPT
                                ![r].list_mappings = maps,
                                ![r].mappings_updated = updated,
                                ![r].recorded = IF added THEN @ \cup {u} ELSE @,
                                ![r].idx = @ + 1,
                                ![r].pc = IF last THEN "done" ELSE "loop"]
                  /\ mappings_file' = IF last /\ ShouldSave(updated)
                                      THEN save_list_mappings(mappings_file, maps)
                                      ELSE mappings_file
    /\ UNCHANGED raceRest

NextRace == \E r \in RunIds : RaceLoad(r) \/ RacePass(r)

SpecRace == InitRace /\ [][NextRace]_vars

\* What a step does to run r, as seen from outside.
RunLoads(r) == runs[r].pc = "queued" /\ runs'[r].pc = "loop"
RunEnds(r) == runs[r].pc = "loop" /\ runs'[r].pc = "done"
C28_Step ==
    /\ \A r \in RunIds :
          \* the file is read when the run starts and at no other time
          /\ RunLoads(r) => runs'[r].list_mappings = mappings_file
          /\ (runs[r].pc = "loop" /\ runs'[r] # runs[r]) =>
                \/ runs'[r].list_mappings = runs[r].list_mappings
                \/ \E id \in {7, 8} :
                      runs'[r].list_mappings =
                          (runs[r].usernames[runs[r].idx] :> id) @@ runs[r].list_mappings
          \* a run that recorded a mapping writes its own memory over the file
          /\ (RunEnds(r) /\ runs'[r].mappings_updated) =>
                mappings_file' = runs'[r].list_mappings
    /\ mappings_file' # mappings_file => \E r \in RunIds : RunEnds(r)
    \* no run waits for the other
    /\ \A r \in RunIds : runs[r].pc # "done" => ENABLED (RaceLoad(r) \/ RacePass(r))

\* C28: the mapping file is read once when a sync run starts and written
\* when it ends, with nothing that keeps another run out in between: each
\* run's steps can be taken whatever the other run is doing, and the write
\* replaces the file with the run's own mappings, so a mapping another run
\* wrote in the meantime is lost.
C28_ReadOnceWrittenWhole == [][C28_Step]_vars

\* The lost update: both runs have finished, the request's run recorded
\* alice's mapping and the scheduler's run recorded bob's, and the file
\* holds alice's only.
C28_Witness ==
    /\ \A r \in RunIds : runs[r].pc = "done"
    /\ "alice" \in runs["request"].recorded
    /\ "bob" \in runs["cron"].recorded
    /\ mappings_file = ("alice" :> 7)

-----------------------------------------------------------------------------
\* jobs/scheduler.py and the lifespan of index.py

MaxFires == 2   \* most runs the scheduler starts while the application serves

\* "true", "True" and "false" as code points
StrTrue == <<116, 114, 117, 101>>
StrTrueCapital == <<84, 114, 117, 101>>
StrFalse == <<102, 97, 108, 115, 101>>
NonEmptyUser(u) == u # ""
\* get_cron_config(): enabled is CRON_ENABLED lowered and compared with
\* "true"; target_users keeps the entries of CRON_TARGET_USERS that are not
\* empty.
get_cron_config(e) ==
    [enabled |-> Lower(e.CRON_ENABLED) = StrTrue,
     schedule |-> e.CRON_SCHEDULE,
     timezone |-> e.CRON_TIMEZONE,
     target_users |-> SelectSeq(e.CRON_TARGET_USERS, NonEmptyUser)]

\* validate_cron_expression: five fields, each one CronTrigger can parse.
CronFieldOk(f) == f \in {"0", "*"}
validate_cron_expression(expr) ==
    Len(expr) = 5 /\ \A i \in 1..Len(expr) : CronFieldOk(expr[i])

\* The exceptions init_scheduler handles.
InitCatches(kind) ==
    kind \in {"UnknownTimeZoneError", "ValueError", "RuntimeError", "OSError"}

NewScheduler == Some([running |-> FALSE, jobs |-> <<>>])
Started(s, users) == Some([running |-> TRUE, jobs |-> <<<<"sync_to_tmdb", users>>>>])
SchedulerLeft(s, e) == [scheduler |-> s, raised |-> e]

\* init_scheduler(): what it leaves in _scheduler_manager.scheduler and the
\* exception that leaves it, if any. e is the environment: the settings and
\* what pytz, add_job and start do.
init_scheduler(s, e) ==
    LET cfg == get_cron_config(e)
    IN  IF ~cfg.enabled THEN SchedulerLeft(s, None)
        ELSE IF cfg.target_users = <<>> THEN SchedulerLeft(s, None)
        ELSE IF ~validate_cron_expression(cfg.schedule) THEN SchedulerLeft(s, None)
        ELSE IF cfg.timezone # "UTC"
        THEN SchedulerLeft(s, IF InitCatches("UnknownTimeZoneError") THEN None
                                ELSE Some("UnknownTimeZoneError"))
        ELSE IF e.add_job # "ok"
        THEN SchedulerLeft(NewScheduler,
                           IF InitCatches(e.add_job) THEN None ELSE Some(e.add_job))
        ELSE IF e.start # "ok"
        THEN SchedulerLeft(NewScheduler,
                           IF InitCatches(e.start) THEN None ELSE Some(e.start))
        ELSE SchedulerLeft(Started(s, cfg.target_users), None)

\* BaseScheduler.shutdown(): stops a running scheduler and raises
\* SchedulerNotRunningError on one that is not running.
shutdown(s) ==
    IF Val(s).running
    THEN [scheduler |-> Some([Val(s) EXCEPT !.running = FALSE]), raised |-> None,
          log |-> <<<<"shutdown">>>>]
    ELSE [scheduler |-> s, raised |-> Some("SchedulerNotRunningError"),
          log |-> <<<<"shutdown">>, <<"shutdown-raised", "SchedulerNotRunningError">>>>]

\* Mutant: the scheduler is shut down whenever one was created.
ShouldShutdown_Created(s) == s # None

\* if _scheduler_manager.scheduler and _scheduler_manager.scheduler.running
ShouldShutdown(s) == s # None /\ Val(s).running

\* shutdown_scheduler()
shutdown_scheduler(s) ==
    IF ShouldShutdown(s) THEN shutdown(s)
    ELSE [scheduler |-> s, raised |-> None, log |-> <<>>]

\* The process environment.
EnabledValues == {StrTrue, StrTrueCapital, StrFalse}
Schedules == {<<"0", "0", "*", "*", "*">>, <<"0", "0", "*", "*">>, <<"0", "0", "*", "*", "x">>}
Timezones == {"UTC", "Nowhere"}
RawUsers == UNION {[1..n -> {"alice", ""}] : n \in 0..MaxUsers}
CronEnvs ==
    [CRON_ENABLED : EnabledValues, CRON_SCHEDULE : Schedules,
     CRON_TIMEZONE : Timezones, CRON_TARGET_USERS : RawUsers,
     add_job : {"ok", "ValueError", "KeyError"}, start : {"ok", "RuntimeError"}]

InitScheduler ==
    /\ pc = "call"
    /\ data = <<>> /\ limit = None /\ page = 1 /\ page_size = 1
    /\ sort_key = "None" /\ reverse = FALSE /\ result = NoResult
    /\ films_data = NoMovies /\ films = <<>>
    /\ OrchUnused
    /\ SvcUnused
    /\ SyncUnused
    /\ runs = <<>>
    /\ cron \in CronEnvs
    /\ scheduler = None
    /\ app = "starting"
    /\ sched_log = <<>>

schedRest == <<pc, pagVars, filmVars, orchVars, svcVars, syncVars, runs, cron>>

\* lifespan up to the yield: init_scheduler(). An exception that leaves
\* init_scheduler ends the startup, and the process goes on to exit.
LifespanStartup ==
    /\ app = "starting"
    /\ LET r == init_scheduler(scheduler, cron)
       IN  /\ scheduler' = r.scheduler
           /\ IF r.raised = None
              THEN /\ sched_log' = sched_log \o <<<<"init_scheduler">>, <<"yield">>>>
                   /\ app' = "serving"
              ELSE /\ sched_log' = sched_log \o <<<<"init_scheduler">>,
                                                  <<"raised", Val(r.raised)>>>>
                   /\ app' = "failed"
    /\ UNCHANGED schedRest

IsFire(e) == e[1] = "run_sync_job"
\* While the application serves, a running scheduler starts its job when
\* the trigger fires.
CronFire ==
    /\ app = "serving"
    /\ scheduler # None /\ Val(scheduler).running
    /\ Len(SelectSeq(sched_log, IsFire)) < MaxFires
    /\ sched_log' = Append(sched_log, <<"run_sync_job", Val(scheduler).jobs[1][2]>>)
    /\ UNCHANGED <<scheduler, app>>
    /\ UNCHANGED schedRest

\* lifespan after the yield: shutdown_scheduler().
LifespanShutdown ==
    /\ app = "serving"
    /\ LET r == shutdown_scheduler(scheduler)
       IN  /\ scheduler' = r.scheduler
           /\ sched_log' = sched_log \o <<<<"resume">>, <<"shutdown_scheduler">>>> \o r.log
    /\ app' = "stopped"
    /\ UNCHANGED schedRest

\* atexit.register(shutdown_scheduler): run when the process exits.
AtExit ==
    /\ app \in {"stopped", "failed"}
    /\ LET r == shutdown_scheduler(scheduler)
       IN  /\ scheduler' = r.scheduler
           /\ sched_log' = sched_log \o <<<<"atexit">>, <<"shutdown_scheduler">>>> \o r.log
    /\ app' = "exited"
    /\ UNCHANGED schedRest

NextScheduler == LifespanStartup \/ CronFire \/ LifespanShutdown \/ AtExit

SpecScheduler == InitScheduler /\ [][NextScheduler]_vars

IsInitCall(e) == e = <<"init_scheduler">>
IsShutdownCall(e) == e = <<"shutdown_scheduler">>
IsShutdown(e) == e = <<"shutdown">>
IsShutdownRaise(e) == e[1] = "shutdown-raised"
IsYield(e) == e = <<"yield">>
NewSchedLog == SubSeq(sched_log', Len(sched_log) + 1, Len(sched_log'))

C30_Step ==
    /\ Len(SelectSeq(sched_log', IsInitCall)) <= 1
    /\ sched_log' # <<>> => sched_log'[1] = <<"init_scheduler">>
    /\ app' = "serving" => SelectSeq(sched_log', IsShutdownCall) = <<>>
    /\ \A k \in 1..Len(sched_log') :
          IsShutdownCall(sched_log'[k]) =>
              /\ k > 1
              /\ sched_log'[k - 1] \in {<<"resume">>, <<"atexit">>}
              /\ sched_log'[k - 1] = <<"resume">> =>
                     SelectSeq(SubSeq(sched_log', 1, k - 1), IsYield) # <<>>
    /\ LET called == SelectSeq(NewSchedLog, IsShutdownCall) # <<>>
           did == SelectSeq(NewSchedLog, IsShutdown) # <<>>
       IN  /\ did => called
           /\ called => (did <=> (scheduler # None /\ Val(scheduler).running))
           /\ (called /\ ~did) => scheduler' = scheduler
           /\ did => (scheduler' # None /\ ~Val(scheduler').running)
    /\ SelectSeq(sched_log', IsShutdownRaise) = <<>>
    /\ Len(SelectSeq(sched_log', IsShutdown)) <= 1
    /\ Len(SelectSeq(sched_log', IsShutdownCall)) <= 2

\* C30: the lifespan calls init_scheduler once, first thing at startup, and
\* shutdown_scheduler only once the lifespan has resumed after its yield;
\* shutdown_scheduler shuts the scheduler down only when one was created
\* and is running, and otherwise changes nothing and raises nothing, so of
\* its two invocations (lifespan exit, then atexit) at most one shuts the
\* scheduler down.
C30_SchedulerLifecycle == [][C30_Step]_vars

\* A process that started its scheduler, ran the job, left the lifespan and
\* exited: shutdown_scheduler was invoked twice and the scheduler shut down
\* once.
C30_Witness ==
    /\ app = "exited"
    /\ Len(SelectSeq(sched_log, IsShutdownCall)) = 2
    /\ Len(SelectSeq(sched_log, IsShutdown)) = 1
    /\ <<"run_sync_job", <<"alice">>>> \in {sched_log[k] : k \in 1..Len(sched_log)}
    /\ scheduler # None /\ ~Val(scheduler).running

====
